---- MODULE Spec2Model ----
(***************************************************************************)
(* A model of the vault maintenance tool (src/src/application.rs and       *)
(* src/src/application/meta.rs, entry.rs).                                 *)
(*                                                                         *)
(* Text is modelled at the level of characters: a string is a sequence of  *)
(* one-character strings, so that lines(), join(), starts_with(),          *)
(* contains(), replace() and trim() are computed as the code computes      *)
(* them.                                                                   *)
(***************************************************************************)
EXTENDS Integers, Sequences, FiniteSets, TLC

----------------------------------------------------------------------------
(* Characters and the string literals of the source.                       *)

NL == "\n"
CR == "\r"
SP == " "
QUOTE == "\""

\* "---", the delimiter literal of meta.rs
DELIM == <<"-", "-", "-">>
\* "banner", "banner_icon", "created", "type": the metadata keys of meta.rs
KEY_BANNER == <<"b", "a", "n", "n", "e", "r">>
KEY_BANNER_ICON == <<"b", "a", "n", "n", "e", "r", "_", "i", "c", "o", "n">>
KEY_CREATED == <<"c", "r", "e", "a", "t", "e", "d">>
KEY_TYPE == <<"t", "y", "p", "e">>
KEY_TAGS == <<"t", "a", "g", "s">>
\* "Banners/", the prefix fix_banner puts before a banner name
BANNERS_PREFIX == <<"B", "a", "n", "n", "e", "r", "s", "/">>
\* ['!', '[', ']'], the characters fix_banner trims
BANNER_PATTERNS == {"!", "[", "]"}

Digits == {"0", "1", "2", "3", "4", "5", "6", "7", "8", "9"}
Whitespace == {SP, "\t", NL, CR}

----------------------------------------------------------------------------
(* The string operations of the Rust standard library that the code uses.  *)

MinOf(S) == CHOOSE x \in S : \A y \in S : x <= y

\* str::starts_with
StartsWith(s, p) == Len(s) >= Len(p) /\ SubSeq(s, 1, Len(p)) = p

\* str::ends_with
EndsWith(s, p) == Len(s) >= Len(p) /\ SubSeq(s, Len(s) - Len(p) + 1, Len(s)) = p

\* the positions at which p occurs in s
Occurrences(s, p) ==
  {i \in 1..(Len(s) + 1) : i + Len(p) - 1 <= Len(s) /\ SubSeq(s, i, i + Len(p) - 1) = p}

\* str::contains
Contains(s, p) == Occurrences(s, p) # {}

\* str::replace on a non-empty pattern: the non-overlapping occurrences, left to right
RECURSIVE ReplaceFrom(_, _, _, _)
ReplaceFrom(s, from, to, i) ==
  LET occ == {j \in Occurrences(s, from) : j >= i}
  IN IF occ = {} \/ from = <<>>
       THEN SubSeq(s, i, Len(s))
       ELSE LET j == MinOf(occ)
            IN SubSeq(s, i, j - 1) \o to \o ReplaceFrom(s, from, to, j + Len(from))

Replace(s, from, to) == ReplaceFrom(s, from, to, 1)

\* str::trim_matches(set): the characters of the set are cut from both ends
TrimMatches(s, set) ==
  LET keep == {i \in 1..Len(s) : s[i] \notin set}
  IN IF keep = {} THEN <<>>
     ELSE SubSeq(s, MinOf(keep), CHOOSE i \in keep : \A j \in keep : j <= i)

\* str::trim
Trim(s) == TrimMatches(s, Whitespace)

\* [T]::join(sep) on strings
RECURSIVE Join(_, _)
Join(parts, sep) ==
  IF parts = <<>> THEN <<>>
  ELSE IF Len(parts) = 1 THEN parts[1]
  ELSE parts[1] \o sep \o Join(Tail(parts), sep)

\* str::lines: a line ends at "\n" or at "\r\n", the terminator is not part of the
\* line, and nothing follows the last terminator
RECURSIVE LinesFrom(_, _)
LinesFrom(s, i) ==
  IF i > Len(s) THEN <<>>
  ELSE LET nl == {j \in i..Len(s) : s[j] = NL}
       IN IF nl = {} THEN <<SubSeq(s, i, Len(s))>>
          ELSE LET j == MinOf(nl)
                   line == SubSeq(s, i, j - 1)
               IN <<IF EndsWith(line, <<CR>>) THEN SubSeq(line, 1, Len(line) - 1) ELSE line>>
                    \o LinesFrom(s, j + 1)

Lines(s) == LinesFrom(s, 1)

\* Iterator::position, counted from 1; 0 stands for None
FirstIndex(seq, P(_)) ==
  LET hit == {i \in 1..Len(seq) : P(seq[i])}
  IN IF hit = {} THEN 0 ELSE MinOf(hit)

\* Vec::remove(idx), idx counted from 1
RemoveAt(seq, idx) == SubSeq(seq, 1, idx - 1) \o SubSeq(seq, idx + 1, Len(seq))

----------------------------------------------------------------------------
(* The YAML values of yaml_rust that Metadata wraps, and the loader and    *)
(* emitter Metadata calls (meta.rs lines 41 and 152-153).  The grammar is  *)
(* the block mapping of scalars that front matter uses: one "key: value"   *)
(* line per entry, a value plain or double-quoted.  A Hash keeps the       *)
(* insertion order of its keys (linked_hash_map).                          *)

\* Option<T>: None is <<>>, Some(v) is <<v>>
None == <<>>
Some(v) == <<v>>

YString(s) == [k |-> "String", s |-> s, h |-> <<>>]
YInteger(s) == [k |-> "Integer", s |-> s, h |-> <<>>]
YNull == [k |-> "Null", s |-> <<>>, h |-> <<>>]
YBadValue == [k |-> "BadValue", s |-> <<>>, h |-> <<>>]
YHash(h) == [k |-> "Hash", s |-> <<>>, h |-> h]
\* Yaml::Array: h holds the items
YArray(items) == [k |-> "Array", s |-> <<>>, h |-> items]

\* Hash::get
HashGet(h, key) ==
  LET hit == {i \in 1..Len(h) : h[i].key = key}
  IN IF hit = {} THEN None ELSE Some(h[MinOf(hit)].val)

\* Hash::remove
HashRemove(h, key) == SelectSeq(h, LAMBDA e : e.key # key)

\* Hash::insert: the value of a key already present is replaced and the entry moves
\* to the back
HashInsert(h, key, val) == Append(HashRemove(h, key), [key |-> key, val |-> val])

\* Index<&str> for Yaml: BadValue when the value is no Hash or has no such key
YIndex(y, key) ==
  IF y.k = "Hash" /\ HashGet(y.h, key) # None THEN HashGet(y.h, key)[1] ELSE YBadValue

\* Yaml::as_str
AsStr(y) == IF y.k = "String" THEN Some(y.s) ELSE None

\* Yaml::as_vec
AsVec(y) == IF y.k = "Array" THEN Some(y.h) ELSE None

IsInteger(s) == s # <<>> /\ \A i \in 1..Len(s) : s[i] \in Digits

\* the resolution of a plain scalar
PlainScalar(s) ==
  IF s = <<"~">> \/ s = <<>> THEN YNull
  ELSE IF IsInteger(s) THEN YInteger(s)
  ELSE YString(s)

\* a scalar token: double-quoted or plain; None for a quote that is never closed
ScalarToken(v) ==
  IF StartsWith(v, <<QUOTE>>)
    THEN IF Len(v) >= 2 /\ v[Len(v)] = QUOTE /\ ~Contains(SubSeq(v, 2, Len(v) - 1), <<QUOTE>>)
           THEN Some(YString(SubSeq(v, 2, Len(v) - 1)))
           ELSE None
    ELSE Some(PlainScalar(v))

\* one "key: value" (or "key:") line of a block mapping; None when the line is none
MappingEntry(line) ==
  LET colon == Occurrences(line, <<":", SP>>)
  IN IF colon # {} /\ MinOf(colon) > 1
       THEN LET p == MinOf(colon)
                v == ScalarToken(Trim(SubSeq(line, p + 2, Len(line))))
            IN IF v = None THEN None
               ELSE Some([key |-> SubSeq(line, 1, p - 1), val |-> v[1]])
     ELSE IF Len(line) >= 2 /\ line[Len(line)] = ":" /\ ~Contains(SubSeq(line, 1, Len(line) - 1), <<":">>)
       THEN Some([key |-> SubSeq(line, 1, Len(line) - 1), val |-> YNull])
     ELSE None

\* a "- value" line of a block sequence
IsItem(line) == StartsWith(Trim(line), <<"-", SP>>)
ItemToken(line) == ScalarToken(Trim(SubSeq(Trim(line), 3, Len(Trim(line)))))

\* the number of item lines the lines start with
ItemCount(lines) ==
  LET stop == {i \in 1..Len(lines) : ~IsItem(lines[i])}
  IN IF stop = {} THEN Len(lines) ELSE MinOf(stop) - 1

\* the lines are entries of a block mapping: "key: value" lines, and "key:" lines
\* followed by the items of a sequence
WellFormedBlock(lines) ==
  \A i \in 1..Len(lines) :
    IF IsItem(lines[i])
      THEN /\ ItemToken(lines[i]) # None
           /\ \E j \in 1..(i - 1) :
                 /\ \A k \in (j + 1)..(i - 1) : IsItem(lines[k])
                 /\ ~IsItem(lines[j])
                 /\ MappingEntry(lines[j]) # None
                 /\ MappingEntry(lines[j])[1].val = YNull
      ELSE MappingEntry(lines[i]) # None

RECURSIVE LoadHash(_, _)
LoadHash(lines, h) ==
  IF lines = <<>> THEN h
  ELSE LET e == MappingEntry(lines[1])[1]
           n == ItemCount(Tail(lines))
       IN IF n > 0
            THEN LoadHash(SubSeq(lines, n + 2, Len(lines)),
                          HashInsert(h, e.key,
                                     YArray([i \in 1..n |-> ItemToken(lines[i + 1])[1]])))
            ELSE LoadHash(Tail(lines), HashInsert(h, e.key, e.val))

\* YamlLoader::load_from_str: the documents of the text (none for a text without
\* content; "{}" is the mapping without entries), or a scan error
YamlLoad(text) ==
  LET lines == SelectSeq(Lines(text), LAMBDA l : Trim(l) # <<>>)
  IN IF lines = <<>> THEN [tag |-> "Ok", docs |-> <<>>]
     ELSE IF Len(lines) = 1 /\ Trim(lines[1]) = <<"{", "}">>
       THEN [tag |-> "Ok", docs |-> <<YHash(<<>>)>>]
     ELSE IF WellFormedBlock(lines)
       THEN [tag |-> "Ok", docs |-> <<YHash(LoadHash(lines, <<>>))>>]
     ELSE IF Len(lines) = 1 /\ ~Contains(lines[1], <<":">>) /\ ScalarToken(Trim(lines[1])) # None
       THEN [tag |-> "Ok", docs |-> <<ScalarToken(Trim(lines[1]))[1]>>]
     ELSE [tag |-> "ScanError", docs |-> <<>>]

\* need_quotes of the emitter (the words yes/no/true/false/on/off/null and the
\* float forms are outside the alphabet of the model)
NeedQuotes(s) ==
  \/ s = <<>>
  \/ s[1] = SP \/ s[Len(s)] = SP
  \/ s[1] \in {"&", "*", "?", "|", "-", "<", ">", "=", "!", "%", "@", "."}
  \/ \E i \in 1..Len(s) : s[i] \in {":", "{", "}", "[", "]", ",", "#", "`", QUOTE, "'", "\\", "\t", NL, CR}
  \/ s = <<"~">>
  \/ IsInteger(s)

EmitScalar(y) ==
  IF y.k = "String" THEN (IF NeedQuotes(y.s) THEN <<QUOTE>> \o y.s \o <<QUOTE>> ELSE y.s)
  ELSE IF y.k = "Integer" THEN y.s
  ELSE <<"~">>

\* emit_array under a key of the mapping: one indented "- value" line per item
RECURSIVE EmitArray(_)
EmitArray(items) ==
  IF items = <<>> THEN <<>>
  ELSE <<NL, SP, SP, "-", SP>> \o EmitScalar(items[1]) \o EmitArray(Tail(items))

RECURSIVE EmitHash(_)
EmitHash(h) ==
  IF h = <<>> THEN <<>>
  ELSE LET e == h[1]
           line == IF e.val.k = "Array"
                     THEN EmitScalar(YString(e.key)) \o <<":">> \o
                            (IF e.val.h = <<>> THEN <<SP, "[", "]">> ELSE EmitArray(e.val.h))
                     ELSE EmitScalar(YString(e.key)) \o <<":", SP>> \o EmitScalar(e.val)
       IN IF Len(h) = 1 THEN line ELSE line \o <<NL>> \o EmitHash(Tail(h))

\* YamlEmitter::dump: "---", a line break, the value; no line break at the end
YamlDump(y) ==
  DELIM \o <<NL>> \o
    (IF y.k = "Hash" THEN (IF y.h = <<>> THEN <<"{", "}">> ELSE EmitHash(y.h))
     ELSE EmitScalar(y))

----------------------------------------------------------------------------
(* Metadata (meta.rs).  A result is Ok with a value, Err with the name of  *)
(* the error, or Panic when the code aborts the process.                   *)

Ok(v) == [tag |-> "Ok", err |-> "", v |-> v]
Err(e) == [tag |-> "Err", err |-> e, v |-> YBadValue]
Panic == [tag |-> "Panic", err |-> "", v |-> YBadValue]

\* whether a line is taken as a front-matter delimiter (meta.rs lines 19 and 160)
IsDelimiter(line) == StartsWith(line, DELIM)

\* `last = Some(idx - 1)` of from_str, idx the index of the closing delimiter
FromStrLast(idx) == IF idx > 0 THEN Some(idx - 1) ELSE None

\* the loop of Metadata::from_str from line idx (counted from 0) on
RECURSIVE FromStrScan(_, _, _)
FromStrScan(lines, idx, st) ==
  IF idx >= Len(lines) THEN st
  ELSE LET line == lines[idx + 1]
       IN IF IsDelimiter(line) /\ st.first # None
            THEN [st EXCEPT !.last = FromStrLast(idx)]
            ELSE LET st1 == IF IsDelimiter(line) THEN [st EXCEPT !.first = Some(idx + 1)] ELSE st
                     st2 == IF st1.last = None /\ st1.first # None /\ idx >= st1.first[1]
                              THEN [st1 EXCEPT !.yaml = Append(@, line)]
                              ELSE st1
                 IN FromStrScan(lines, idx + 1, st2)

\* from_str without the check for the closing delimiter: the block runs to the end of
\* the text.  C6 has to tell it from from_str.
FromStrToEnd(s) ==
  LET st == FromStrScan(Lines(s), 0, [first |-> None, last |-> None, yaml |-> <<>>])
  IN IF st.first # None
       THEN LET loaded == YamlLoad(Join(st.yaml, <<NL>>))
            IN IF loaded.tag = "ScanError" THEN Err("YamlScanError")
               ELSE IF loaded.docs = <<>> THEN Panic
               ELSE Ok(loaded.docs[1])
       ELSE Err("NoteMetadataNotFound")

\* Metadata::from_str
FromStr(s) ==
  LET st == FromStrScan(Lines(s), 0, [first |-> None, last |-> None, yaml |-> <<>>])
  IN IF st.first # None
       THEN IF st.last # None
              THEN LET loaded == YamlLoad(Join(st.yaml, <<NL>>))
                   IN IF loaded.tag = "ScanError" THEN Err("YamlScanError")
                      ELSE IF loaded.docs = <<>> THEN Panic
                      ELSE Ok(loaded.docs[1])
              ELSE Err("IllegalNoteMetadata")
       ELSE Err("NoteMetadataNotFound")

\* Metadata::get_type
GetType(m) == AsStr(YIndex(m, KEY_TYPE))

\* Metadata::get_tags: the items of tags that are strings
GetTags(m) ==
  LET v == AsVec(YIndex(m, KEY_TAGS))
  IN IF v = None THEN None
     ELSE Some([i \in 1..Len(SelectSeq(v[1], LAMBDA e : e.k = "String")) |->
                  SelectSeq(v[1], LAMBDA e : e.k = "String")[i].s])

\* Metadata::get_banner
GetBanner(m) == AsStr(YIndex(m, KEY_BANNER))

\* Metadata::set_banner
SetBanner(m, file_name) ==
  IF m.k = "Hash" THEN Ok(YHash(HashInsert(m.h, KEY_BANNER, YString(file_name))))
  ELSE Err("IllegalNoteMetadata")

\* fix_banner without the test for the Banners/ prefix: the prefix is put in front of
\* every banner.  C8 has to tell it from fix_banner.
FixBannerAlways(m) ==
  IF m.k = "Hash"
    THEN LET b == HashGet(m.h, KEY_BANNER)
             fix == b # None /\ b[1].k = "String"
             h1 == IF fix
                     THEN HashInsert(m.h, KEY_BANNER,
                                     YString(BANNERS_PREFIX \o TrimMatches(b[1].s, BANNER_PATTERNS)))
                     ELSE m.h
             icon == HashGet(h1, KEY_BANNER_ICON) # None
             h2 == IF icon THEN HashRemove(h1, KEY_BANNER_ICON) ELSE h1
         IN [m |-> YHash(h2), flag |-> fix \/ icon]
    ELSE [m |-> m, flag |-> FALSE]

\* Metadata::fix_banner: the metadata after the call and the flag it returns
FixBanner(m) ==
  IF m.k = "Hash"
    THEN LET b == HashGet(m.h, KEY_BANNER)
             fix == b # None /\ b[1].k = "String" /\ ~StartsWith(b[1].s, BANNERS_PREFIX)
             h1 == IF fix
                     THEN HashInsert(m.h, KEY_BANNER,
                                     YString(BANNERS_PREFIX \o TrimMatches(b[1].s, BANNER_PATTERNS)))
                     ELSE m.h
             icon == HashGet(h1, KEY_BANNER_ICON) # None
             h2 == IF icon THEN HashRemove(h1, KEY_BANNER_ICON) ELSE h1
         IN [m |-> YHash(h2), flag |-> fix \/ icon]
    ELSE [m |-> m, flag |-> FALSE]

\* Metadata::has_created
HasCreated(m) == AsStr(YIndex(m, KEY_CREATED)) # None

\* Metadata::set_created, on the formatted time stamp
SetCreated(m, value) ==
  IF m.k = "Hash" THEN Ok(YHash(HashInsert(m.h, KEY_CREATED, YString(value))))
  ELSE Err("IllegalNoteMetadata")

\* Metadata::remove_created
RemoveCreated(m) ==
  IF m.k = "Hash" THEN Ok(YHash(HashRemove(m.h, KEY_CREATED)))
  ELSE Err("IllegalNoteMetadata")

\* embed taking the rest of the text from the line after the closing delimiter.  C4
\* has to tell it from embed.
EmbedLastNext(idx) == Some(idx + 1)

\* `last = Some(idx)` of embed, idx the index of the closing delimiter
EmbedLast(idx) == IF idx > 0 THEN Some(idx) ELSE None

\* the loop of Metadata::embed from line idx (counted from 0) on
RECURSIVE EmbedScan(_, _, _)
EmbedScan(content, idx, st) ==
  IF idx >= Len(content) THEN st
  ELSE IF IsDelimiter(content[idx + 1])
    THEN IF st.first # None
           THEN [st EXCEPT !.last = EmbedLast(idx)]
           ELSE EmbedScan(content, idx + 1, [st EXCEPT !.first = Some(idx + 1)])
    ELSE EmbedScan(content, idx + 1, st)

\* Iterator::take and Iterator::skip on a sequence
Take(seq, n) == SubSeq(seq, 1, IF n < Len(seq) THEN n ELSE Len(seq))
Skip(seq, n) == SubSeq(seq, n + 1, Len(seq))

\* the pieces embed joins: the lines before the opening delimiter, the dumped
\* metadata, the lines from the closing delimiter on
EmbedPieces(out_str, content, st) ==
  IF st.first # None
    THEN Take(content, st.first[1] - 1) \o <<out_str>> \o
           (IF st.last # None THEN Skip(content, st.last[1]) ELSE <<DELIM>>)
    ELSE <<DELIM, out_str, DELIM \o <<NL>>>> \o content

\* Metadata::embed
Embed(m, note) ==
  LET content == Lines(note)
      st == EmbedScan(content, 0, [first |-> None, last |-> None])
  IN Join(EmbedPieces(YamlDump(m), content, st), <<NL>>)

----------------------------------------------------------------------------
(* The regular expression of repair_wiki_refs (application.rs 229-234)     *)
(* and its replacement "[[$file|$descr]]".  A match is: "[[", white space, *)
(* the file (a run of FileChars, then any number of groups of white space  *)
(* and a run of WordChars), white space, "|", white space (at least one),  *)
(* the description (any character but a line break, then a run of at least *)
(* one character that is no bracket), "]]".                                *)

Lower == {"a", "b", "c", "d", "e", "f", "g", "h", "i", "j", "k", "l", "m",
          "n", "o", "p", "q", "r", "s", "t", "u", "v", "w", "x", "y", "z"}
Upper == {"A", "B", "C", "D", "E", "F", "G", "H", "I", "J", "K", "L", "M",
          "N", "O", "P", "Q", "R", "S", "T", "U", "V", "W", "X", "Y", "Z"}
\* the class of the first run of the file: letters, digits, "-", "."
FileChars == Lower \cup Upper \cup Digits \cup {"-", "."}
\* the class of the further runs of the file: word characters, "-", ".", "(", ")"
WordChars == Lower \cup Upper \cup Digits \cup {"_", "-", ".", "(", ")"}
\* the characters the description stops at
Brackets == {"[", "]"}

\* the position after the longest run of characters of the set that starts at i
RunEnd(s, i, set) ==
  LET stop == {j \in i..Len(s) : s[j] \notin set}
  IN IF stop = {} THEN Len(s) + 1 ELSE MinOf(stop)

\* the position after the longest run of characters outside the set that starts at i
RunEndNot(s, i, set) ==
  LET stop == {j \in i..Len(s) : s[j] \in set}
  IN IF stop = {} THEN Len(s) + 1 ELSE MinOf(stop)

\* the groups of white space and WordChars from i: the position after the last one
RECURSIVE WordGroupsEnd(_, _)
WordGroupsEnd(s, i) ==
  LET w == RunEnd(s, i, Whitespace)
      e == RunEnd(s, w, WordChars)
  IN IF w > i /\ e > w THEN WordGroupsEnd(s, e) ELSE i

\* the match of the expression that starts at i, None when there is none: the file,
\* the description and the position after the match
WikiMatchAt(s, i) ==
  IF ~(i + 1 <= Len(s) /\ s[i] = "[" /\ s[i + 1] = "[") THEN None
  ELSE
    LET f0 == RunEnd(s, i + 2, Whitespace)
        f1 == RunEnd(s, f0, FileChars)
        f2 == WordGroupsEnd(s, f1)
        bar == RunEnd(s, f2, Whitespace)
    IN IF f1 = f0 \/ bar > Len(s) \/ s[bar] # "|" THEN None
       ELSE
         LET ws == RunEnd(s, bar + 1, Whitespace)
             \* the white space after "|" is greedy: the description starts as late as
             \* a match allows
             starts == {d \in (bar + 2)..ws :
                          /\ d <= Len(s) /\ s[d] # NL
                          /\ RunEndNot(s, d + 1, Brackets) > d + 1
                          /\ LET e == RunEndNot(s, d + 1, Brackets)
                             IN e + 1 <= Len(s) /\ s[e] = "]" /\ s[e + 1] = "]"}
         IN IF starts = {} THEN None
            ELSE LET d == CHOOSE x \in starts : \A y \in starts : y <= x
                     e == RunEndNot(s, d + 1, Brackets)
                 IN Some([file |-> SubSeq(s, f0, f2 - 1), descr |-> SubSeq(s, d, e - 1),
                          next |-> e + 2])

\* Regex::replace_all(buffer, "[[$file|$descr]]") from position i on
RECURSIVE WikiReplaceFrom(_, _)
WikiReplaceFrom(s, i) ==
  IF i > Len(s) THEN <<>>
  ELSE LET m == WikiMatchAt(s, i)
       IN IF m = None THEN <<s[i]>> \o WikiReplaceFrom(s, i + 1)
          ELSE <<"[", "[">> \o m[1].file \o <<"|">> \o m[1].descr \o <<"]", "]">>
                 \o WikiReplaceFrom(s, m[1].next)

WikiReplace(s) == WikiReplaceFrom(s, 1)

----------------------------------------------------------------------------
(* What the bulk operations of application.rs do with the text of one      *)
(* file, between reading it and writing it: Write with the new text, Skip  *)
(* when the file is not written, Panic when the process aborts.  `parse`   *)
(* is how from_str ended, "" for an operation that does not call it.       *)

Written(content, parse) == [kind |-> "Write", content |-> content, parse |-> parse]
NotWritten(content, parse) == [kind |-> "Skip", content |-> content, parse |-> parse]
Aborted(content) == [kind |-> "Panic", content |-> content, parse |-> "Panic"]

ParseOutcome(r) == IF r.tag = "Err" THEN r.err ELSE r.tag

\* repair_wiki_refs, lines 257-261: the file is written whether or not it changed
WikiRefsFile(buffer) == Written(WikiReplace(buffer), "")

\* remove_created, lines 688-699
RemoveCreatedFile(buffer) ==
  LET r == FromStr(buffer)
  IN IF r.tag = "Panic" THEN Aborted(buffer)
     ELSE IF r.tag = "Ok" /\ HasCreated(r.v)
       THEN LET m == RemoveCreated(r.v)
            IN Written(Embed(IF m.tag = "Ok" THEN m.v ELSE r.v, buffer), "Ok")
     ELSE NotWritten(buffer, ParseOutcome(r))

\* repair_banners, lines 739-747
RepairBannersFile(buffer) ==
  LET r == FromStr(buffer)
  IN IF r.tag = "Panic" THEN Aborted(buffer)
     ELSE IF r.tag = "Ok" /\ FixBanner(r.v).flag
       THEN Written(Embed(FixBanner(r.v).m, buffer), "Ok")
     ELSE NotWritten(buffer, ParseOutcome(r))

\* add_created, lines 1286-1302, given the time stamp of the file
AddCreatedFile(buffer, note_type, stamp) ==
  LET r == FromStr(buffer)
  IN IF r.tag = "Panic" THEN Aborted(buffer)
     ELSE IF r.tag = "Ok" /\ GetType(r.v) = Some(note_type) /\ ~HasCreated(r.v)
       THEN Written(Embed(SetCreated(r.v, stamp).v, buffer), "Ok")
     ELSE NotWritten(buffer, ParseOutcome(r))

\* rename_banner, lines 1342-1355
RenameBannerFile(buffer, old_name, new_name) ==
  LET r == FromStr(buffer)
  IN IF r.tag = "Panic" THEN Aborted(buffer)
     ELSE IF r.tag = "Ok" /\ GetBanner(r.v) = Some(old_name)
       THEN Written(Embed(SetBanner(r.v, new_name).v, buffer), "Ok")
     ELSE NotWritten(buffer, ParseOutcome(r))

\* the metadata in memory at the end of the closure of add_banner, lines 1156-1171:
\* set_banner is called when the type is note_type and, when tags are given and the
\* note has tags, each given tag is among them
AddBannerMeta(m, file_name, note_type, note_tags) ==
  IF GetType(m) = Some(note_type)
     /\ (note_tags # None /\ GetTags(m) # None =>
           \A i \in 1..Len(note_tags[1]) :
              \E j \in 1..Len(GetTags(m)[1]) : GetTags(m)[1][j] = note_tags[1][i])
    THEN (IF SetBanner(m, file_name).tag = "Ok" THEN SetBanner(m, file_name).v ELSE m)
    ELSE m

\* add_banner, lines 1149-1174: the metadata is changed in memory; the closure
\* neither embeds it nor writes the file
AddBannerFile(buffer, file_name, note_type, note_tags) ==
  LET r == FromStr(buffer)
  IN IF r.tag = "Panic" THEN Aborted(buffer)
     ELSE NotWritten(buffer, ParseOutcome(r))

\* remove_line, lines 1396-1404, given the trimmed line: the first line that ends
\* with it, once trimmed, is removed
RemoveLineFile(buffer, line) ==
  LET lines == Lines(buffer)
      idx == FirstIndex(lines, LAMBDA l : EndsWith(Trim(l), line))
  IN IF idx # 0 THEN Written(Join(RemoveAt(lines, idx), <<NL>>), "")
     ELSE NotWritten(buffer, "")

\* the operations that read the metadata of a note
MetadataOps == {"remove_created", "repair_banners", "add_created", "rename_banner"}

----------------------------------------------------------------------------
(* The notes the specifications draw their inputs from.                    *)

\* a text of the given lines, each ended by eol, the last one only when final
Text(lines, eol, final) == Join(lines, eol) \o (IF final /\ lines # <<>> THEN eol ELSE <<>>)

LineEndings == {<<NL>>, <<CR, NL>>}

\* attachment and banner names
NAME_A == <<"a", ".", "p">>
NAME_B == <<"b", ".", "p">>
BannerNames == {NAME_A, <<"!", "[", "[", "a", ".", "p", "]", "]">>}

\* the time stamp set_created formats ("%FT%T%:z" holds colons)
CreatedStamp == <<"1", ":", "2">>

\* the lines of a metadata block
L_BANNER_A == KEY_BANNER \o <<":", SP>> \o NAME_A
L_BANNER_WIKI == KEY_BANNER \o <<":", SP, QUOTE, "!", "[", "[", "a", ".", "p", "]", "]", QUOTE>>
L_BANNER_FIXED == KEY_BANNER \o <<":", SP>> \o BANNERS_PREFIX \o NAME_A
L_BANNER_OPEN_QUOTE == KEY_BANNER \o <<":", SP, QUOTE, "a">>
L_ICON == KEY_BANNER_ICON \o <<":", SP, "x">>
L_CREATED == KEY_CREATED \o <<":", SP>> \o CreatedStamp
L_CREATED_INT == KEY_CREATED \o <<":", SP, "7">>
L_TYPE_N == KEY_TYPE \o <<":", SP, "n">>

\* metadata blocks: mappings, a mapping with a key twice, a scalar, a block without
\* content, a block the loader rejects
Blocks ==
  { <<L_BANNER_A>>, <<L_BANNER_WIKI, L_ICON>>, <<L_BANNER_FIXED, L_TYPE_N>>,
    <<L_TYPE_N, L_CREATED>>, <<L_CREATED_INT>>, <<L_BANNER_A, L_CREATED, L_BANNER_FIXED>>,
    <<<<"a", "b">>>>, <<>>, <<L_BANNER_OPEN_QUOTE>> }

\* the lines after the metadata block
L_WIKI == <<"[", "[", "a", SP, "|", SP, "b", "c", "]", "]">>
Bodies == { <<>>, <<<<"x">>>>, <<<<"x">>, <<>>>>, <<<<"x">>, <<SP, "x">>>>, <<L_WIKI>> }

\* a note: lines before the block, the block between its delimiters (the closing one
\* only when closed), the body
Note(pre, block, closed, body, eol, final) ==
  Text(pre \o <<DELIM>> \o block \o (IF closed THEN <<DELIM>> ELSE <<>>) \o body, eol, final)

\* lines that start with three hyphens and go on
L_DASHES == <<"-", "-", "-", "-">>
L_DASHES_TEXT == DELIM \o <<SP, "t">>

\* notes with such lines around a block
DashNotes ==
  { Text(<<open, L_TYPE_N, L_DASHES, <<"x">>>>, <<NL>>, TRUE) : open \in {DELIM, L_DASHES_TEXT} }

\* the notes metadata is read from
SourceNotes == { Note(<<>>, b, TRUE, <<<<"x">>>>, <<NL>>, TRUE) : b \in Blocks } \cup DashNotes

\* the notes metadata is embedded into: with and without lines before the block, with
\* a closed, an open and no block, with either line ending, with and without a final
\* line terminator
TargetNotes ==
  { Note(pre, b, closed, body, eol, final) :
      pre \in {<<>>, <<<<"t">>>>}, b \in {<<L_TYPE_N>>, <<>>}, closed \in BOOLEAN,
      body \in Bodies, eol \in LineEndings, final \in BOOLEAN }
  \cup { Text(body, eol, final) : body \in Bodies, eol \in LineEndings, final \in BOOLEAN }
  \cup DashNotes

\* the notes the operations are run on
OperationNotes ==
  { Note(<<>>, b, closed, body, eol, final) :
      b \in Blocks, closed \in BOOLEAN, body \in Bodies, eol \in LineEndings,
      final \in BOOLEAN }

\* the operations with their arguments
Op(name, a, b) == [name |-> name, a |-> a, b |-> b]
Operations ==
  { Op("repair_wiki_refs", <<>>, <<>>), Op("remove_created", <<>>, <<>>),
    Op("repair_banners", <<>>, <<>>), Op("add_created", <<"n">>, CreatedStamp),
    Op("rename_banner", NAME_A, NAME_B), Op("remove_line", <<"x", SP>>, <<>>) }
NoOp == Op("", <<>>, <<>>)

\* the number of delimiter lines of a text
DelimiterCount(s) == Cardinality({i \in 1..Len(Lines(s)) : IsDelimiter(Lines(s)[i])})

\* the text holds a front-matter block: an opening and a closing delimiter
HasFrontMatter(s) == DelimiterCount(s) >= 2

\* the index of the n-th delimiter line of a text
NthDelimiter(s, n) ==
  LET d == {i \in 1..Len(Lines(s)) : IsDelimiter(Lines(s)[i])}
  IN CHOOSE i \in d : Cardinality({j \in d : j <= i}) = n

\* the lines before the opening delimiter and after the closing one
LinesBefore(s) == SubSeq(Lines(s), 1, NthDelimiter(s, 1) - 1)
LinesAfter(s) == SubSeq(Lines(s), NthDelimiter(s, 2) + 1, Len(Lines(s)))

----------------------------------------------------------------------------
(* Bounds of the model.                                                    *)

\* the mutations applied to metadata between from_str and embed
MaxMutations == 1

\* the times an operation is run on the same file in succession
MaxRuns == 2

\* the entries the walk of the vault root yields
MaxFiles == 2

\* the note files and the attachment files of the vault rename_attached_files runs on
MaxNotes == 2
MaxAttachments == 2

----------------------------------------------------------------------------
(* State.                                                                  *)

VARIABLES
  src,      \* the text Metadata::from_str reads
  tgt,      \* the text Metadata::embed is given
  meta,     \* the result of from_str, then the metadata as mutated
  out,      \* the text embed returns
  back,     \* the result of from_str on the text embed returned
  mstage,   \* how far the run of the metadata functions has come
  mutations \* the number of mutations applied to the metadata

metaVars == <<src, tgt, meta, out, back, mstage, mutations>>

VARIABLES
  ifile,    \* the text of the file an operation is run on again and again
  iop,      \* that operation
  itrail    \* per run: whether the file was written, and its text after the run

idemVars == <<ifile, iop, itrail>>

VARIABLES
  root,     \* the configured vault root: unset, or what the path is on disk
  vault,    \* the entries under the root, in the order the walk yields them
  orig,     \* the vault before the operation
  op,       \* the bulk operation with its arguments
  pc,       \* idle, walk (the stream is being polled), done (returned), aborted (panic)
  next,     \* the index of the next entry of the walk
  fault,    \* per entry, the I/O call the environment made fail, once it is processed
  errors,   \* the errors the stream has collected, with the entry of each
  result,   \* what the operation returned
  opened,   \* the entries File::open succeeded on
  created,  \* the entries File::create succeeded on
  parse     \* per entry, how Metadata::from_str ended

pipeVars == <<root, vault, orig, op, pc, next, fault, errors, result, opened, created, parse>>

VARIABLES
  attach,   \* the files directory: name of a file -> whose content it holds
  aorig,    \* the names of the files directory before the operation
  rnotes,   \* the notes of the vault, in the order the walk yields them
  rorig,    \* the notes before the operation
  files,    \* the HashMap of the operation: stem -> FileEntry
  order,    \* the order files.iter() yields the stems in
  rpc,      \* idle, notes (first stream), renames (second stream), done
  rnext,    \* the index of the next note, then of the next entry of the map
  rlog,     \* the events so far: a note processed, a file renamed
  rewritten,\* the notes File::create succeeded on
  rerrors,  \* the errors collected
  rresult   \* what the operation returned

renameVars ==
  <<attach, aorig, rnotes, rorig, files, order, rpc, rnext, rlog, rewritten, rerrors, rresult>>

VARIABLES
  walk,     \* the entries WalkDir yields: whether the filter selects each
  stream,   \* the state of the stream of a bulk operation while it is polled
  spc,      \* idle, polled (collect is awaited), done (returned)
  sresult   \* what the operation returned

streamVars == <<walk, stream, spc, sresult>>

VARIABLES
  targ,     \* the text given as the --issue argument
  issues,   \* the result of Issues::from_str on it
  notes,    \* the titles of Notes.notes, in the order of the collection
  tnumber,  \* the issue number grab_twir looks up next
  found,    \* the result of Notes::find for each number looked up
  tpc       \* cli (the argument is parsed), find, done, aborted (panic)

twirVars == <<targ, issues, notes, tnumber, found, tpc>>

VARIABLES
  ufiles,   \* the names of the files the files directory holds
  uorig,    \* those names before remove_unused_files
  unotes,   \* the entries the walk of the root yields
  ufault,   \* per entry, the read call the environment made fail, once it is read
  umix,     \* the results the stream has collected
  unused,   \* the files found unused that are still to be removed
  upc,      \* idle, notes (the stream is polled), remove, done
  unext,    \* the index of the next entry of the walk
  uresult   \* what the operation returned

unusedVars == <<ufiles, uorig, unotes, ufault, umix, unused, upc, unext, uresult>>

VARIABLES
  issueOp,     \* repair_twir_issues or repair_apod_issues
  issueDir,    \* the files of the directory of the issues: name -> text
  issueOrig,   \* that directory before the operation
  daily,       \* the files of the directory of the daily notes: name -> text
  dailyOrig,   \* that directory before the operation
  listing,     \* the names the walk of the directory yields, in its order
  issuePc,     \* idle, walk, done
  issueNext,   \* the index of the next name of the listing
  issueLog,    \* the calls on files that were made, in their order
  issueErrors, \* the errors collected
  issueResult  \* what the operation returned

issueVars ==
  <<issueOp, issueDir, issueOrig, daily, dailyOrig, listing, issuePc, issueNext, issueLog,
    issueErrors, issueResult>>

VARIABLES
  flags,     \* the flags of the repair command that are set
  runPc,     \* idle, run, done
  runAt,     \* the position in the order of the operations that run has come to
  runLog,    \* the operations started, in their order, each with its result
  runResult  \* what run returned

runVars == <<flags, runPc, runAt, runLog, runResult>>

VARIABLES
  cyear,     \* the year add_calendar is called with
  cmonth,    \* the month add_calendar is called with
  current,   \* the day of the month of the date current
  cn,        \* n: the cells the row holds
  crow,      \* row: the cells pushed to it
  calendar,  \* the rows pushed after the two header rows
  calPc,     \* idle, loop, built, done
  calResult  \* what add_calendar returned

calVars == <<cyear, cmonth, current, cn, crow, calendar, calPc, calResult>>

\* the variables of the operations modelled after the ones above
extraVars == <<unusedVars, issueVars, runVars, calVars>>

\* all variables but those of one of these operations
notUnusedVars == <<issueVars, runVars, calVars>>
notIssueVars == <<unusedVars, runVars, calVars>>
notRunVars == <<unusedVars, issueVars, calVars>>
notCalVars == <<unusedVars, issueVars, runVars>>

\* the variables of the operations above
firstVars == <<metaVars, idemVars, pipeVars, renameVars, streamVars, twirVars>>

vars == <<firstVars, extraVars>>

NoResult == [tag |-> "None", err |-> "", v |-> YBadValue]

\* the metadata functions are not in use
MetaIdle ==
  /\ src = <<>> /\ tgt = <<>> /\ meta = NoResult /\ out = <<>> /\ back = NoResult
  /\ mstage = "off" /\ mutations = 0

\* no operation is being repeated
IdemIdle == ifile = <<>> /\ iop = NoOp /\ itrail = <<>>

\* no bulk operation runs
PipeQuiet ==
  /\ vault = <<>> /\ orig = <<>> /\ op = NoOp /\ pc = "off" /\ next = 0
  /\ fault = <<>> /\ errors = <<>> /\ result = [tag |-> "None", errors |-> <<>>]
  /\ opened = {} /\ created = {} /\ parse = <<>>

PipeIdle == root = "unset" /\ PipeQuiet

\* rename_attached_files does not run
RenameIdle ==
  /\ attach = <<>> /\ aorig = {} /\ rnotes = <<>> /\ rorig = <<>> /\ files = <<>> /\ order = <<>>
  /\ rpc = "off" /\ rnext = 0 /\ rlog = <<>> /\ rewritten = {} /\ rerrors = <<>>
  /\ rresult = [tag |-> "None", errors |-> <<>>]

\* the stream of no bulk operation is polled
StreamIdle ==
  /\ walk = <<>> /\ stream = <<>> /\ spc = "off" /\ sresult = [tag |-> "None", errors |-> <<>>]

\* grab_twir does not run
TwirIdle ==
  /\ targ = <<>> /\ issues = NoResult /\ notes = <<>> /\ tnumber = 0 /\ found = <<>>
  /\ tpc = "off"

\* remove_unused_files does not run
UnusedIdle ==
  /\ ufiles = {} /\ uorig = {} /\ unotes = <<>> /\ ufault = <<>> /\ umix = <<>>
  /\ unused = <<>> /\ upc = "off" /\ unext = 0 /\ uresult = [tag |-> "None", errors |-> <<>>]

\* neither repair_twir_issues nor repair_apod_issues runs
IssueIdle ==
  /\ issueOp = "none" /\ issueDir = <<>> /\ issueOrig = <<>> /\ daily = <<>>
  /\ dailyOrig = <<>> /\ listing = <<>> /\ issuePc = "off" /\ issueNext = 0
  /\ issueLog = <<>> /\ issueErrors = <<>> /\ issueResult = [tag |-> "None", errors |-> <<>>]

\* no repair command runs
RunIdle ==
  /\ flags = {} /\ runPc = "off" /\ runAt = 0 /\ runLog = <<>>
  /\ runResult = [tag |-> "None", errors |-> <<>>]

\* add_calendar does not run
CalIdle ==
  /\ cyear = 0 /\ cmonth = 0 /\ current = 0 /\ cn = 0 /\ crow = <<>> /\ calendar = <<>>
  /\ calPc = "off" /\ calResult = [tag |-> "None", errors |-> <<>>]

ExtraIdle == UnusedIdle /\ IssueIdle /\ RunIdle /\ CalIdle

\* none of the operations above runs, but for check_root's
FirstIdle == MetaIdle /\ IdemIdle /\ PipeQuiet /\ RenameIdle /\ StreamIdle /\ TwirIdle

----------------------------------------------------------------------------
(* The metadata functions, applied one after another as the operations of  *)
(* application.rs apply them: from_str, one mutation, embed; then from_str *)
(* on the result.                                                          *)

InitMeta ==
  /\ src \in SourceNotes
  /\ tgt \in TargetNotes
  /\ meta = NoResult /\ out = <<>> /\ back = NoResult
  /\ mstage = "init" /\ mutations = 0
  /\ IdemIdle /\ PipeIdle /\ RenameIdle /\ StreamIdle /\ TwirIdle /\ ExtraIdle

MetaParse ==
  /\ mstage = "init"
  /\ meta' = FromStr(src)
  /\ mstage' = IF FromStr(src).tag = "Ok" THEN "parsed" ELSE "failed"
  /\ UNCHANGED <<src, tgt, out, back, mutations>>
  /\ UNCHANGED <<idemVars, pipeVars, renameVars, streamVars, twirVars, extraVars>>

MetaSetBanner(name) ==
  /\ mstage = "parsed" /\ mutations < MaxMutations
  /\ SetBanner(meta.v, name).tag = "Ok"
  /\ meta' = SetBanner(meta.v, name)
  /\ mutations' = mutations + 1
  /\ UNCHANGED <<src, tgt, out, back, mstage>>
  /\ UNCHANGED <<idemVars, pipeVars, renameVars, streamVars, twirVars, extraVars>>

MetaFixBanner ==
  /\ mstage = "parsed" /\ mutations < MaxMutations
  /\ FixBanner(meta.v).flag
  /\ meta' = Ok(FixBanner(meta.v).m)
  /\ mutations' = mutations + 1
  /\ UNCHANGED <<src, tgt, out, back, mstage>>
  /\ UNCHANGED <<idemVars, pipeVars, renameVars, streamVars, twirVars, extraVars>>

MetaSetCreated ==
  /\ mstage = "parsed" /\ mutations < MaxMutations
  /\ SetCreated(meta.v, CreatedStamp).tag = "Ok"
  /\ meta' = SetCreated(meta.v, CreatedStamp)
  /\ mutations' = mutations + 1
  /\ UNCHANGED <<src, tgt, out, back, mstage>>
  /\ UNCHANGED <<idemVars, pipeVars, renameVars, streamVars, twirVars, extraVars>>

MetaRemoveCreated ==
  /\ mstage = "parsed" /\ mutations < MaxMutations
  /\ RemoveCreated(meta.v).tag = "Ok"
  /\ meta' = RemoveCreated(meta.v)
  /\ mutations' = mutations + 1
  /\ UNCHANGED <<src, tgt, out, back, mstage>>
  /\ UNCHANGED <<idemVars, pipeVars, renameVars, streamVars, twirVars, extraVars>>

MetaEmbed ==
  /\ mstage = "parsed"
  /\ out' = Embed(meta.v, tgt)
  /\ mstage' = "embedded"
  /\ UNCHANGED <<src, tgt, meta, back, mutations>>
  /\ UNCHANGED <<idemVars, pipeVars, renameVars, streamVars, twirVars, extraVars>>

MetaReparse ==
  /\ mstage = "embedded"
  /\ back' = FromStr(out)
  /\ mstage' = "reparsed"
  /\ UNCHANGED <<src, tgt, meta, out, mutations>>
  /\ UNCHANGED <<idemVars, pipeVars, renameVars, streamVars, twirVars, extraVars>>

NextMeta ==
  \/ MetaParse
  \/ \E name \in BannerNames : MetaSetBanner(name)
  \/ MetaFixBanner
  \/ MetaSetCreated
  \/ MetaRemoveCreated
  \/ MetaEmbed
  \/ MetaReparse

SpecMeta == InitMeta /\ [][NextMeta]_vars

----------------------------------------------------------------------------
(* One operation run on one file several times in succession, each run on  *)
(* the text the run before left (the closure of the operation, without     *)
(* failures of the file system).                                           *)

InitIdem ==
  /\ ifile \in OperationNotes
  /\ iop \in Operations
  /\ itrail = <<>>
  /\ MetaIdle /\ PipeIdle /\ RenameIdle /\ StreamIdle /\ TwirIdle /\ ExtraIdle

IdemStep(r) ==
  /\ Len(itrail) < MaxRuns
  /\ ifile' = (IF r.kind = "Write" THEN r.content ELSE ifile)
  /\ itrail' = Append(itrail, [wrote |-> r.kind = "Write",
                               content |-> IF r.kind = "Write" THEN r.content ELSE ifile])
  /\ UNCHANGED iop
  /\ UNCHANGED <<metaVars, pipeVars, renameVars, streamVars, twirVars, extraVars>>

IdemRepairWikiRefs == iop.name = "repair_wiki_refs" /\ IdemStep(WikiRefsFile(ifile))
IdemRemoveCreated == iop.name = "remove_created" /\ IdemStep(RemoveCreatedFile(ifile))
IdemRepairBanners == iop.name = "repair_banners" /\ IdemStep(RepairBannersFile(ifile))
IdemAddCreated == iop.name = "add_created" /\ IdemStep(AddCreatedFile(ifile, iop.a, iop.b))
IdemRenameBanner == iop.name = "rename_banner" /\ IdemStep(RenameBannerFile(ifile, iop.a, iop.b))
IdemRemoveLine == iop.name = "remove_line" /\ IdemStep(RemoveLineFile(ifile, Trim(iop.a)))

NextIdem ==
  \/ IdemRepairWikiRefs
  \/ IdemRemoveCreated
  \/ IdemRepairBanners
  \/ IdemAddCreated
  \/ IdemRenameBanner
  \/ IdemRemoveLine

SpecIdem == InitIdem /\ [][NextIdem]_vars

----------------------------------------------------------------------------
(* The bulk operations of application.rs over the vault: check_root, then  *)
(* the stream over the walk of the root.  The stream is polled by one      *)
(* task: an entry is filtered, read, transformed and written before the    *)
(* next entry of the walk is looked at.                                    *)

Returned(tag, errs) == [tag |-> tag, errors |-> errs]
NotReturned == Returned("None", <<>>)

\* check_root without the test of the path on disk.  C10 has to tell it from
\* check_root.
CheckRootSet(r) ==
  IF r # "unset" THEN Returned("Ok", <<>>) ELSE Returned("VaultRootIsAbsent", <<>>)

\* Application::check_root on the configured root
CheckRoot(r) ==
  IF r # "unset"
    THEN IF r = "dir" THEN Returned("Ok", <<>>) ELSE Returned("IllegalVaultRoot", <<>>)
    ELSE Returned("VaultRootIsAbsent", <<>>)

\* an end that returns the list of errors whether or not it is empty.  C7 has to
\* tell it from the end of the operations.
AggregateAlways(errs) == Returned("MultipleExecutorsError", errs)

\* the end of a bulk operation: Ok(()) or the collected errors
Aggregate(errs) ==
  IF errs = <<>> THEN Returned("Ok", <<>>) ELSE Returned("MultipleExecutorsError", errs)

\* an entry of the walk
Entry(kind, ext, content) == [kind |-> kind, ext |-> ext, content |-> content]

\* the filter of the stream: an existing file with the extension md
Selected(e) == e.kind = "file" /\ e.ext = "md"

\* a stream that ends at the first error.  C1 has to tell it from the stream of the
\* operations.
AbandonWalk(i) == Len(vault) + 1

\* the stream goes on with the next entry after an item, also after one that ended
\* with an error: the errors are filtered out of the results and collected
AfterOk(i) == i + 1
AfterErr(i) == i + 1

\* the texts the notes of the vault hold
T_BANNER == Text(<<DELIM, L_BANNER_A, L_TYPE_N, DELIM, L_WIKI>>, <<NL>>, TRUE)
T_CREATED == Text(<<DELIM, L_CREATED, DELIM, <<"x">>, <<"x">>>>, <<NL>>, TRUE)
T_OPEN == Text(<<DELIM, L_BANNER_A, L_CREATED, L_TYPE_N, <<"x">>>>, <<NL>>, TRUE)
T_EMPTY_BLOCK == Text(<<DELIM, DELIM, <<"x">>>>, <<NL>>, TRUE)

\* the entries a walk can yield
FileKinds ==
  { Entry("file", "md", T_BANNER), Entry("file", "md", T_CREATED),
    Entry("file", "md", T_OPEN), Entry("file", "md", T_EMPTY_BLOCK),
    Entry("file", "txt", T_BANNER), Entry("dir", "md", <<>>) }

\* a note with a type and a tag
L_TAGS == KEY_TAGS \o <<":">>
T_TAGS == Text(<<DELIM, L_TYPE_N, L_TAGS, <<"-", SP, "r">>, DELIM, <<"x">>>>, <<NL>>, TRUE)

\* add_banner with its arguments: the file name, the type, the tags if any
AddBannerOps ==
  { Op("add_banner", NAME_B, <<<<"n">>, tags>>) :
      tags \in {None, Some(<<<<"r">>>>), Some(<<<<"s">>>>)} }

\* the entries the walk can yield to an operation
KindsOf(o) ==
  IF o.name = "add_banner" THEN FileKinds \cup {Entry("file", "md", T_TAGS)} ELSE FileKinds

\* what a write_all that failed can have left of the text
PartialWrites(content) == { SubSeq(content, 1, n) : n \in {0, Len(content) \div 2} }

\* the I/O calls of a closure that can fail on an entry: open and read always, and
\* when the closure comes to write the file, the calls on that path (the metadata of
\* the file in add_created, create, write_all).  "gone" is File::open on a file that
\* was removed after the filter saw it: the call returns the NotFound error.
Faults(r, stats) ==
  {"none", "gone", "open", "read"}
    \cup (IF r.kind = "Write" THEN {"create", "write"} ELSE {})
    \cup (IF r.kind = "Write" /\ stats THEN {"stat"} ELSE {})

InitPipe ==
  /\ root \in {"unset", "absent", "file", "dir"}
  /\ op \in Operations \cup AddBannerOps
  /\ vault \in [1..MaxFiles -> KindsOf(op)]
  /\ orig = vault
  /\ pc = "idle" /\ next = 0
  /\ fault = [i \in 1..MaxFiles |-> "pending"]
  /\ parse = [i \in 1..MaxFiles |-> "pending"]
  /\ errors = <<>> /\ result = NotReturned /\ opened = {} /\ created = {}
  /\ MetaIdle /\ IdemIdle /\ RenameIdle /\ StreamIdle /\ TwirIdle /\ ExtraIdle

\* the call of the operation up to its stream: check_root()?
Start ==
  /\ pc = "idle"
  /\ LET c == CheckRoot(root)
     IN IF c.tag = "Ok"
          THEN pc' = "walk" /\ next' = 1 /\ result' = result
          ELSE pc' = "done" /\ next' = next /\ result' = c
  /\ UNCHANGED <<root, vault, orig, op, fault, errors, opened, created, parse>>
  /\ UNCHANGED <<metaVars, idemVars, renameVars, streamVars, twirVars, extraVars>>

\* filter_map drops an entry that is no md file
Filter ==
  /\ pc = "walk" /\ next <= Len(vault) /\ ~Selected(vault[next])
  /\ next' = AfterOk(next)
  /\ UNCHANGED <<root, vault, orig, op, pc, fault, errors, result, opened, created, parse>>
  /\ UNCHANGED <<metaVars, idemVars, renameVars, streamVars, twirVars, extraVars>>

\* the stream has a selected entry to run the closure on
Ready == pc = "walk" /\ next <= Len(vault) /\ Selected(vault[next])

\* the closure of an operation on the entry: open, read, r (what the operation does
\* with the text), then create and write_all when r writes; f is the call that fails
Unit(r, stats) ==
  \E f \in Faults(r, stats) :
    /\ fault' = [fault EXCEPT ![next] = f]
    /\ opened' = IF f \in {"gone", "open"} THEN opened ELSE opened \cup {next}
    /\ IF f \in {"gone", "open", "read"}
         THEN /\ errors' = Append(errors, [entry |-> next, error |-> "IoError"])
              /\ next' = AfterErr(next)
              /\ UNCHANGED <<vault, pc, created, parse>>
         ELSE /\ parse' = [parse EXCEPT ![next] = r.parse]
              /\ IF r.kind = "Panic"
                   THEN /\ pc' = "aborted"
                        /\ UNCHANGED <<vault, next, errors, created>>
                   ELSE IF r.kind = "Skip"
                   THEN /\ next' = AfterOk(next)
                        /\ UNCHANGED <<vault, pc, errors, created>>
                   ELSE IF f \in {"stat", "create"}
                   THEN /\ errors' = Append(errors, [entry |-> next, error |-> "IoError"])
                        /\ next' = AfterErr(next)
                        /\ UNCHANGED <<vault, pc, created>>
                   ELSE IF f = "write"
                   THEN /\ \E part \in PartialWrites(r.content) :
                             vault' = [vault EXCEPT ![next].content = part]
                        /\ created' = created \cup {next}
                        /\ errors' = Append(errors, [entry |-> next, error |-> "IoError"])
                        /\ next' = AfterErr(next)
                        /\ pc' = pc
                   ELSE /\ vault' = [vault EXCEPT ![next].content = r.content]
                        /\ created' = created \cup {next}
                        /\ next' = AfterOk(next)
                        /\ UNCHANGED <<pc, errors>>
    /\ UNCHANGED <<root, orig, op, result>>
    /\ UNCHANGED <<metaVars, idemVars, renameVars, streamVars, twirVars, extraVars>>

RepairWikiRefs ==
  op.name = "repair_wiki_refs" /\ Ready /\ Unit(WikiRefsFile(vault[next].content), FALSE)
RemoveCreatedNotes ==
  op.name = "remove_created" /\ Ready /\ Unit(RemoveCreatedFile(vault[next].content), FALSE)
RepairBanners ==
  op.name = "repair_banners" /\ Ready /\ Unit(RepairBannersFile(vault[next].content), FALSE)
AddCreated ==
  op.name = "add_created" /\ Ready
    /\ Unit(AddCreatedFile(vault[next].content, op.a, op.b), TRUE)
RenameBanner ==
  op.name = "rename_banner" /\ Ready
    /\ Unit(RenameBannerFile(vault[next].content, op.a, op.b), FALSE)
RemoveLine ==
  op.name = "remove_line" /\ Ready
    /\ Unit(RemoveLineFile(vault[next].content, Trim(op.a)), FALSE)
AddBanner ==
  op.name = "add_banner" /\ Ready
    /\ Unit(AddBannerFile(vault[next].content, op.a, op.b[1], op.b[2]), FALSE)

\* collect() is over: the operation returns
Return ==
  /\ pc = "walk" /\ next > Len(vault)
  /\ result' = Aggregate(errors)
  /\ pc' = "done"
  /\ UNCHANGED <<root, vault, orig, op, next, fault, errors, opened, created, parse>>
  /\ UNCHANGED <<metaVars, idemVars, renameVars, streamVars, twirVars, extraVars>>

Next ==
  \/ Start
  \/ Filter
  \/ RepairWikiRefs
  \/ RemoveCreatedNotes
  \/ RepairBanners
  \/ AddCreated
  \/ RenameBanner
  \/ RemoveLine
  \/ AddBanner
  \/ Return

Spec == InitPipe /\ [][Next]_vars

----------------------------------------------------------------------------
(* rename_attached_files: the files of the files directory are given new   *)
(* names, the notes are rewritten, then the files are renamed.             *)

\* Path::file_stem and Path::extension of a file name
LastDot(name) == IF \E i \in 1..Len(name) : name[i] = "."
                   THEN CHOOSE i \in 1..Len(name) :
                          name[i] = "." /\ \A j \in (i + 1)..Len(name) : name[j] # "."
                   ELSE 0
FileStem(name) == IF LastDot(name) <= 1 THEN name ELSE SubSeq(name, 1, LastDot(name) - 1)
Extension(name) ==
  IF LastDot(name) <= 1 THEN None ELSE Some(SubSeq(name, LastDot(name) + 1, Len(name)))

\* Uuid::new_v4().to_string(): hexadecimal digits in groups joined by "-"; the model
\* keeps one digit a group and two groups
HexDigits == Digits \cup {"a", "b", "c", "d", "e", "f", "A", "B", "C", "D", "E", "F"}
Uuids == {<<"1", "-", "a">>, <<"2", "-", "c">>}

\* the regular expression of line 389 on a stem
IsUuid(stem) ==
  Len(stem) = 3 /\ stem[1] \in HexDigits /\ stem[2] = "-" /\ stem[3] \in HexDigits

\* FileEntry::new for a file of the files directory and an id
FileEntryNew(name, id) ==
  [old_name |-> name,
   new_name |-> IF Extension(name) # None THEN id \o <<".">> \o Extension(name)[1] ELSE id]

\* the orders a collection can be walked in
Orders(S) ==
  { s \in [1..Cardinality(S) -> S] : \A i, j \in 1..Cardinality(S) : s[i] = s[j] => i = j }

\* collect::<HashMap<_, _>>() over the walk w of the files directory with the ids u:
\* an entry for each stem that is no uuid, a later file replacing an earlier one of
\* the same stem
RECURSIVE CollectFrom(_, _, _, _)
CollectFrom(w, u, i, map) ==
  IF i > Len(w) THEN map
  ELSE LET stem == FileStem(w[i])
       IN IF IsUuid(stem) THEN CollectFrom(w, u, i + 1, map)
          ELSE CollectFrom(w, u, i + 1,
                 [s \in DOMAIN map \cup {stem} |->
                    IF s = stem THEN FileEntryNew(w[i], u[w[i]]) ELSE map[s]])

Collect(w, u) == CollectFrom(w, u, 1, <<>>)

\* the loop of lines 444-449 over the entries of the map from position k of its
\* order on: the text and the dirty flag
RECURSIVE RewriteFrom(_, _, _, _)
RewriteFrom(st, map, ord, k) ==
  IF k > Len(ord) THEN st
  ELSE LET fe == map[ord[k]]
       IN IF Contains(st.content, ord[k])
            THEN RewriteFrom([content |-> Replace(st.content, fe.old_name, fe.new_name),
                              dirty |-> TRUE], map, ord, k + 1)
            ELSE RewriteFrom(st, map, ord, k + 1)

Rewrite(content, map, ord) == RewriteFrom([content |-> content, dirty |-> FALSE], map, ord, 1)

\* the files the files directory can hold
ATT_BA == <<"b", "a", ".", "p">>
ATT_AQ == <<"a", ".", "q">>
ATT_UUID == <<"2", "-", "c", ".", "p">>
AttachmentNames == {NAME_A, ATT_BA, ATT_AQ, ATT_UUID}

\* the notes: references to files, a mention of a stem, a file that is no note
NoteKinds ==
  { [ext |-> "md", content |-> NAME_A \o <<SP>> \o ATT_BA],
    [ext |-> "md", content |-> <<"a">>],
    [ext |-> "canvas", content |-> ATT_AQ \o <<SP>> \o ATT_UUID],
    [ext |-> "txt", content |-> NAME_A] }

\* the filter of the first stream: an md or a canvas file
IsNote(n) == n.ext \in {"md", "canvas"}

\* a second stream that starts while the first one still has notes to go through.
\* C2 has to tell it from the streams of the operation.
FirstPassBegun == rnext >= 1

\* the first stream has been collected: every note has been through its closure
FirstPassOver == rnext > Len(rnotes)

InitRename ==
  /\ root \in {"unset", "absent", "file", "dir"}
  /\ \E names \in SUBSET AttachmentNames :
       /\ Cardinality(names) <= MaxAttachments
       /\ attach = [n \in names |-> n]
  /\ aorig = DOMAIN attach
  /\ rnotes \in [1..MaxNotes -> NoteKinds]
  /\ rorig = rnotes
  /\ files = <<>> /\ order = <<>>
  /\ rpc = "idle" /\ rnext = 0 /\ rlog = <<>> /\ rewritten = {} /\ rerrors = <<>>
  /\ rresult = NotReturned
  /\ PipeQuiet /\ MetaIdle /\ IdemIdle /\ StreamIdle /\ TwirIdle /\ ExtraIdle

\* lines 384-419: check_root, files_path, the map of the files
RenameStart ==
  /\ rpc = "idle"
  /\ LET c == CheckRoot(root)
     IN IF c.tag # "Ok"
          THEN /\ rpc' = "done" /\ rresult' = c
               /\ UNCHANGED <<files, order, rnext>>
          ELSE \E files_path \in {"None", "Some"} :
                 IF files_path = "None"
                   THEN /\ rpc' = "done" /\ rresult' = Returned("VaultRootIsAbsent", <<>>)
                        /\ UNCHANGED <<files, order, rnext>>
                   ELSE /\ \E w \in Orders(DOMAIN attach), u \in [DOMAIN attach -> Uuids] :
                             /\ files' = Collect(w, u)
                             /\ order' \in Orders(DOMAIN Collect(w, u))
                        /\ rpc' = "notes" /\ rnext' = 1 /\ rresult' = rresult
  /\ UNCHANGED <<attach, aorig, rnotes, rorig, rlog, rewritten, rerrors>>
  /\ UNCHANGED <<metaVars, idemVars, pipeVars, streamVars, twirVars, extraVars>>

\* the filter of the first stream drops a file that is no note
RenameFilter ==
  /\ rpc = "notes" /\ rnext <= Len(rnotes) /\ ~IsNote(rnotes[rnext])
  /\ rnext' = rnext + 1
  /\ UNCHANGED <<attach, aorig, rnotes, rorig, files, order, rpc, rlog, rewritten, rerrors,
               rresult>>
  /\ UNCHANGED <<metaVars, idemVars, pipeVars, streamVars, twirVars, extraVars>>

\* the closure of the first stream on a note; f is the I/O call that fails
RenameNote ==
  /\ rpc = "notes" /\ rnext <= Len(rnotes) /\ IsNote(rnotes[rnext])
  /\ LET r == Rewrite(rnotes[rnext].content, files, order)
     IN \E f \in {"none", "read"} \cup (IF r.dirty THEN {"create", "write"} ELSE {}) :
          /\ IF f = "write"
               THEN \E part \in PartialWrites(r.content) :
                      rnotes' = [rnotes EXCEPT ![rnext].content = part]
               ELSE IF f = "none" /\ r.dirty
               THEN rnotes' = [rnotes EXCEPT ![rnext].content = r.content]
               ELSE rnotes' = rnotes
          /\ rewritten' = IF r.dirty /\ f \in {"none", "write"} THEN rewritten \cup {rnext}
                          ELSE rewritten
          /\ rerrors' = IF f = "none" THEN rerrors
                        ELSE Append(rerrors, [entry |-> rnext, error |-> "IoError",
                                             pass |-> "notes"])
  /\ rlog' = Append(rlog, [kind |-> "note", id |-> rnext])
  /\ rnext' = rnext + 1
  /\ UNCHANGED <<attach, aorig, rorig, files, order, rpc, rresult>>
  /\ UNCHANGED <<metaVars, idemVars, pipeVars, streamVars, twirVars, extraVars>>

\* a second stream that ends at the first record.  C26 has to tell it from the
\* second stream of the operation.
RenamesAbandoned(k) == Len(order) + 1

\* the second stream goes on with the next record after a rename, failed or not: the
\* errors are filtered out of the results and collected
NextRecord(k) == k + 1

\* lines 460-464: the first stream is collected, the second one starts
RenameBarrier ==
  /\ rpc = "notes" /\ FirstPassOver
  /\ rpc' = "renames" /\ rnext' = 1
  /\ UNCHANGED <<attach, aorig, rnotes, rorig, files, order, rlog, rewritten, rerrors, rresult>>
  /\ UNCHANGED <<metaVars, idemVars, pipeVars, streamVars, twirVars, extraVars>>

\* the closure of the second stream on an entry of the map: fs::rename, which puts
\* the file in the place of a file that has the new name
RenameFile ==
  /\ rpc = "renames" /\ rnext <= Len(order)
  /\ LET fe == files[order[rnext]]
     IN \E f \in {"none", "rename"} :
          IF f = "none" /\ fe.old_name \in DOMAIN attach
            THEN /\ attach' = [n \in (DOMAIN attach \ {fe.old_name}) \cup {fe.new_name} |->
                                 IF n = fe.new_name THEN attach[fe.old_name] ELSE attach[n]]
                 /\ rerrors' = rerrors
            ELSE /\ attach' = attach
                 /\ rerrors' = Append(rerrors, [entry |-> order[rnext], error |-> "IoError",
                                                 pass |-> "renames"])
  /\ rlog' = Append(rlog, [kind |-> "rename", id |-> order[rnext]])
  /\ rnext' = NextRecord(rnext)
  /\ UNCHANGED <<aorig, rnotes, rorig, files, order, rpc, rewritten, rresult>>
  /\ UNCHANGED <<metaVars, idemVars, pipeVars, streamVars, twirVars, extraVars>>

\* lines 475-479
RenameReturn ==
  /\ rpc = "renames" /\ rnext > Len(order)
  /\ rresult' = Aggregate(rerrors)
  /\ rpc' = "done"
  /\ UNCHANGED <<attach, aorig, rnotes, rorig, files, order, rnext, rlog, rewritten, rerrors>>
  /\ UNCHANGED <<metaVars, idemVars, pipeVars, streamVars, twirVars, extraVars>>

NextRename ==
  \/ RenameStart
  \/ RenameFilter
  \/ RenameNote
  \/ RenameBarrier
  \/ RenameFile
  \/ RenameReturn

SpecRename == InitRename /\ [][NextRename]_vars

----------------------------------------------------------------------------
(* The stream of a bulk operation at the grain of its await points.  Every *)
(* bulk operation is stream::iter(walk).filter_map(f).then(unit)           *)
(* .filter_map(err).collect().await; the unit of repair_wiki_refs awaits   *)
(* File::open, read_to_string, File::create and write_all.  StreamExt::then *)
(* keeps one pending future: it asks the stream before it for the next     *)
(* entry only when it holds none, and holds the future until it is ready.  *)

MaxUnits == 3

\* the stream before the first poll
Unpolled ==
  [pos |-> [i \in 1..Len(walk) |-> "walk"], pending |-> 0, cursor |-> 1, errors |-> <<>>]

\* filter_map: the next entry of the walk is not selected
FilterSteps(s) ==
  IF s.pending = 0 /\ s.cursor <= Len(walk) /\ ~walk[s.cursor]
    THEN {[s EXCEPT !.pos[s.cursor] = "skipped", !.cursor = s.cursor + 1]}
    ELSE {}

\* then: no future is pending and the next entry is selected; the future of its
\* unit is made and polled ("Start processing of the file")
PullSteps(s) ==
  IF s.pending = 0 /\ s.cursor <= Len(walk) /\ walk[s.cursor]
    THEN {[s EXCEPT !.pos[s.cursor] = "start", !.pending = s.cursor, !.cursor = s.cursor + 1]}
    ELSE {}

\* the pending future is polled at an await: the call succeeds, or fails and the ?
\* ends the unit; a unit that ended is yielded, its error collected
AwaitSteps(s, from, to) ==
  IF s.pending # 0 /\ s.pos[s.pending] = from
    THEN {[s EXCEPT !.pos[s.pending] = to,
                    !.pending = IF to = "finish" THEN 0 ELSE s.pending],
          [s EXCEPT !.pos[s.pending] = "failed", !.pending = 0,
                    !.errors = Append(s.errors, [entry |-> s.pending, error |-> "IoError"])]}
    ELSE {}

OpenSteps(s) == AwaitSteps(s, "start", "opened")
ReadSteps(s) == AwaitSteps(s, "opened", "read")
CreateSteps(s) == AwaitSteps(s, "read", "created")
WriteSteps(s) == AwaitSteps(s, "created", "finish")

\* collect has drained the stream
Drained(s) == s.pending = 0 /\ s.cursor > Len(walk)

InitStream ==
  /\ walk \in UNION {[1..n -> BOOLEAN] : n \in 1..MaxUnits}
  /\ stream = <<>> /\ spc = "idle" /\ sresult = NotReturned
  /\ MetaIdle /\ IdemIdle /\ PipeIdle /\ RenameIdle /\ TwirIdle /\ ExtraIdle

StreamStart ==
  /\ spc = "idle"
  /\ spc' = "polled" /\ stream' = Unpolled
  /\ UNCHANGED <<walk, sresult>>
  /\ UNCHANGED <<metaVars, idemVars, pipeVars, renameVars, twirVars, extraVars>>

\* one poll of the stream that takes the steps in t
StreamPoll(t) ==
  /\ spc = "polled"
  /\ stream' \in t
  /\ UNCHANGED <<walk, spc, sresult>>
  /\ UNCHANGED <<metaVars, idemVars, pipeVars, renameVars, twirVars, extraVars>>

StreamFilter == StreamPoll(FilterSteps(stream))
StreamPull == StreamPoll(PullSteps(stream))
UnitOpen == StreamPoll(OpenSteps(stream))
UnitRead == StreamPoll(ReadSteps(stream))
UnitCreate == StreamPoll(CreateSteps(stream))
UnitWrite == StreamPoll(WriteSteps(stream))

StreamReturn ==
  /\ spc = "polled" /\ Drained(stream)
  /\ spc' = "done" /\ sresult' = Aggregate(stream.errors)
  /\ UNCHANGED <<walk, stream>>
  /\ UNCHANGED <<metaVars, idemVars, pipeVars, renameVars, twirVars, extraVars>>

NextStream ==
  \/ StreamStart
  \/ StreamFilter
  \/ StreamPull
  \/ UnitOpen
  \/ UnitRead
  \/ UnitCreate
  \/ UnitWrite
  \/ StreamReturn

SpecStream == InitStream /\ [][NextStream]_vars

----------------------------------------------------------------------------
(* The issues of This Week in Rust (twir.rs): the --issue argument parsed  *)
(* by Issues::from_str, then Notes::find for each number grab_twir asks    *)
(* for.  Numbers are u32; their texts are sequences of digits.             *)

DigitChars == <<"0", "1", "2", "3", "4", "5", "6", "7", "8", "9">>
IsDigit(c) == \E i \in 1..10 : DigitChars[i] = c
DigitOf(c) == (CHOOSE i \in 1..10 : DigitChars[i] = c) - 1

\* u32::to_string
RECURSIVE DecimalText(_)
DecimalText(n) ==
  IF n < 10 THEN <<DigitChars[n + 1]>>
  ELSE DecimalText(n \div 10) \o <<DigitChars[(n % 10) + 1]>>

\* the text of u32::MAX
U32_MAX_TEXT == <<"4", "2", "9", "4", "9", "6", "7", "2", "9", "5">>

\* digits of one length: the first number is greater than the second
DigitsGreater(a, b) ==
  \E i \in 1..Len(a) :
    /\ DigitOf(a[i]) > DigitOf(b[i])
    /\ \A j \in 1..(i - 1) : a[j] = b[j]

\* the digits stand for a number above u32::MAX
Overflows(t) ==
  LET d == IF \A i \in 1..Len(t) : t[i] = "0" THEN <<>>
           ELSE SubSeq(t, MinOf({i \in 1..Len(t) : t[i] # "0"}), Len(t))
  IN \/ Len(d) > Len(U32_MAX_TEXT)
     \/ Len(d) = Len(U32_MAX_TEXT) /\ DigitsGreater(d, U32_MAX_TEXT)

RECURSIVE ValueOf(_)
ValueOf(t) ==
  IF t = <<>> THEN 0
  ELSE ValueOf(SubSeq(t, 1, Len(t) - 1)) * 10 + DigitOf(t[Len(t)])

\* u32::from_str on a text the regex captured: None for the error
ParseU32(t) ==
  IF t = <<>> \/ (\E i \in 1..Len(t) : ~IsDigit(t[i])) \/ Overflows(t)
    THEN None
    ELSE Some(ValueOf(t))

\* [1-9]\d*
MatchesNumber(t) ==
  /\ t # <<>> /\ t[1] # "0"
  /\ \A i \in 1..Len(t) : IsDigit(t[i])

DOTS == <<".", ".">>

\* the captures of ^\s*(?P<min>[1-9]\d*)\s*\.\.\s*(?P<max>[1-9]\d*)\s*$
RangeCaptures(s) ==
  LET t == Trim(s)
      cuts == {i \in Occurrences(t, DOTS) :
                 /\ MatchesNumber(Trim(SubSeq(t, 1, i - 1)))
                 /\ MatchesNumber(Trim(SubSeq(t, i + 2, Len(t))))}
  IN IF cuts = {} THEN None
     ELSE LET i == MinOf(cuts)
          IN Some([min |-> Trim(SubSeq(t, 1, i - 1)), max |-> Trim(SubSeq(t, i + 2, Len(t)))])

\* the capture of ^\s*(?P<value>[1-9]\d*)\s*$
ValueCapture(s) == IF MatchesNumber(Trim(s)) THEN Some(Trim(s)) ELSE None

\* the values of Issues
Range(min, max) == [tag |-> "Range", min |-> min, max |-> max]
Single(n) == [tag |-> "Single", min |-> n, max |-> n]

\* from_str that keeps the bounds of a range in the order of the text.  C18 has to
\* tell it from Issues::from_str.
IssuesFromStrInOrder(s) ==
  LET rc == RangeCaptures(s)
      vc == ValueCapture(s)
  IN IF rc # None
       THEN IF ParseU32(rc[1].min) = None \/ ParseU32(rc[1].max) = None THEN Panic
            ELSE Ok(Range(ParseU32(rc[1].min)[1], ParseU32(rc[1].max)[1]))
     ELSE IF vc # None
       THEN IF ParseU32(vc[1]) = None THEN Panic ELSE Ok(Single(ParseU32(vc[1])[1]))
     ELSE Err("IllegalIssue")

\* Issues::from_str, twir.rs 145-163; the unwrap of a failed u32::from_str panics
IssuesFromStr(s) ==
  LET rc == RangeCaptures(s)
      vc == ValueCapture(s)
  IN IF rc # None
       THEN LET min == ParseU32(rc[1].min)
                max == ParseU32(rc[1].max)
            IN IF min = None \/ max = None THEN Panic
               ELSE IF min[1] > max[1] THEN Ok(Range(max[1], min[1]))
               ELSE Ok(Range(min[1], max[1]))
     ELSE IF vc # None
       THEN IF ParseU32(vc[1]) = None THEN Panic ELSE Ok(Single(ParseU32(vc[1])[1]))
     ELSE Err("IllegalIssue")

\* Notes::find, twir.rs 111-120: the first note whose title ends with the text of
\* the number
Find(ns, number) ==
  LET issue == DecimalText(number)
      hit == {i \in 1..Len(ns) : EndsWith(ns[i], issue)}
  IN IF hit = {} THEN Err("IllegalIssue") ELSE Ok(ns[MinOf(hit)])

\* the greatest issue number of the --issue arguments
MaxIssue == 5

\* the title of an issue in the archive
Title(n) == <<"R", "u", "s", "t", SP>> \o DecimalText(n)

\* collections as Notes::select leaves them: the latest issue first
NoteCollections ==
  { <<>>, <<Title(495), Title(15), Title(5), Title(4)>>, <<Title(495), Title(4)>>,
    <<Title(15), Title(5)>>, <<Title(5), Title(4)>>, <<Title(495), Title(15)>> }

\* the --issue arguments: numbers, ranges, and texts that are neither
IssueTexts ==
  { DecimalText(n) : n \in 1..MaxIssue }
  \cup { DecimalText(a) \o DOTS \o DecimalText(b) : a, b \in 1..MaxIssue }
  \cup { <<"0">>, <<"-", "1">>, <<SP, "3", SP>>, <<"1", SP, ".", ".", SP, "2">>,
         <<"0", "1">>, <<"1", ".", ".">>, <<"x">>,
         U32_MAX_TEXT \o <<"0">>, <<"4", "2", "9", "4", "9", "6", "7", "2", "9", "6">>,
         <<"2", ".", ".">> \o U32_MAX_TEXT \o <<"0">> }

InitTwir ==
  /\ targ \in IssueTexts
  /\ notes \in NoteCollections
  /\ issues = NoResult /\ tnumber = 0 /\ found = <<>> /\ tpc = "cli"
  /\ MetaIdle /\ IdemIdle /\ PipeIdle /\ RenameIdle /\ StreamIdle /\ ExtraIdle

\* the command line is parsed: Issues::from_str on the --issue argument
TwirParse ==
  /\ tpc = "cli"
  /\ issues' = IssuesFromStr(targ)
  /\ tpc' = (IF issues'.tag = "Ok" THEN "find" ELSE IF issues'.tag = "Panic" THEN "aborted"
             ELSE "done")
  /\ tnumber' = (IF issues'.tag = "Ok" THEN issues'.v.min ELSE 0)
  /\ UNCHANGED <<targ, notes, found>>
  /\ UNCHANGED <<metaVars, idemVars, pipeVars, renameVars, streamVars, extraVars>>

\* grab_twir_note for the next number of the issues: Notes::find
TwirFind ==
  /\ tpc = "find" /\ tnumber <= issues.v.max
  /\ found' = Append(found, [number |-> tnumber, note |-> Find(notes, tnumber)])
  /\ tnumber' = tnumber + 1
  /\ UNCHANGED <<targ, issues, notes, tpc>>
  /\ UNCHANGED <<metaVars, idemVars, pipeVars, renameVars, streamVars, extraVars>>

\* grab_twir returns
TwirReturn ==
  /\ tpc = "find" /\ tnumber > issues.v.max
  /\ tpc' = "done"
  /\ UNCHANGED <<targ, issues, notes, tnumber, found>>
  /\ UNCHANGED <<metaVars, idemVars, pipeVars, renameVars, streamVars, extraVars>>

NextTwir ==
  \/ TwirParse
  \/ TwirFind
  \/ TwirReturn

SpecTwir == InitTwir /\ [][NextTwir]_vars

----------------------------------------------------------------------------
(* remove_unused_files: the names of the files directory are collected,    *)
(* every md and canvas file under the root is read for the names it        *)
(* contains, and the files no note contains are removed.                   *)

\* a note read for only those names that are its whole text.  C22 has to tell it
\* from the closure of the operation.
LinksWhole(content, names) == {n \in names : content = n}

\* lines 322-327: the names of files the text of a note contains
Links(content, names) == {n \in names : Contains(content, n)}

\* lines 336-343: the names some note contains, and the errors of the stream
AllLinks(mix) == UNION {mix[k].links : k \in 1..Len(mix)}
MixErrors(mix) ==
  LET e == SelectSeq(mix, LAMBDA r : r.tag = "Err")
  IN [k \in 1..Len(e) |-> [entry |-> e[k].entry, error |-> "IoError"]]

\* lines 346-355: the files whose name is in no note
UnusedFiles(names, links) == {n \in names : n \notin links}

InitUnused ==
  /\ root \in {"unset", "absent", "file", "dir"}
  /\ uorig \in {names \in SUBSET AttachmentNames : Cardinality(names) <= MaxAttachments}
  /\ ufiles = uorig
  /\ unotes \in [1..MaxNotes -> NoteKinds]
  /\ ufault = [i \in 1..MaxNotes |-> "pending"]
  /\ umix = <<>> /\ unused = <<>> /\ upc = "idle" /\ unext = 0 /\ uresult = NotReturned
  /\ FirstIdle /\ IssueIdle /\ RunIdle /\ CalIdle

\* lines 281-299: check_root, files_path, the map of the files
UnusedStart ==
  /\ upc = "idle"
  /\ LET c == CheckRoot(root)
     IN IF c.tag # "Ok"
          THEN upc' = "done" /\ uresult' = c /\ unext' = unext
          ELSE \E files_path \in {"None", "Some"} :
                 IF files_path = "None"
                   THEN /\ upc' = "done" /\ uresult' = Returned("VaultRootIsAbsent", <<>>)
                        /\ unext' = unext
                   ELSE upc' = "notes" /\ unext' = 1 /\ uresult' = uresult
  /\ UNCHANGED <<ufiles, uorig, unotes, ufault, umix, unused>>
  /\ UNCHANGED <<firstVars, notUnusedVars>>

\* lines 302-314: filter_map drops an entry that is no md or canvas file
UnusedFilter ==
  /\ upc = "notes" /\ unext <= Len(unotes) /\ ~IsNote(unotes[unext])
  /\ unext' = unext + 1
  /\ UNCHANGED <<ufiles, uorig, unotes, ufault, umix, unused, upc, uresult>>
  /\ UNCHANGED <<firstVars, notUnusedVars>>

\* lines 315-333: the closure reads a note and returns the names it contains, or the
\* error of File::open or read_to_string
UnusedNote ==
  /\ upc = "notes" /\ unext <= Len(unotes) /\ IsNote(unotes[unext])
  /\ \E f \in {"none", "open", "read"} :
       /\ ufault' = [ufault EXCEPT ![unext] = f]
       /\ umix' = Append(umix,
                         IF f = "none"
                           THEN [entry |-> unext, tag |-> "Ok",
                                 links |-> Links(unotes[unext].content, uorig)]
                           ELSE [entry |-> unext, tag |-> "Err", links |-> {}])
  /\ unext' = unext + 1
  /\ UNCHANGED <<ufiles, uorig, unotes, unused, upc, uresult>>
  /\ UNCHANGED <<firstVars, notUnusedVars>>

\* lines 336-358 and 377: after collect, the errors are returned if there are any;
\* else the unused files are listed, in the order the map yields them
UnusedSort ==
  /\ upc = "notes" /\ unext > Len(unotes)
  /\ IF MixErrors(umix) # <<>>
       THEN /\ upc' = "done" /\ uresult' = Returned("MultipleExecutorsError", MixErrors(umix))
            /\ unused' = unused
       ELSE /\ unused' \in Orders(UnusedFiles(uorig, AllLinks(umix)))
            /\ upc' = "remove" /\ uresult' = uresult
  /\ UNCHANGED <<ufiles, uorig, unotes, ufault, umix, unext>>
  /\ UNCHANGED <<firstVars, notUnusedVars>>

\* lines 366-369: remove_file on the next unused file; its error ends the operation
UnusedRemove ==
  /\ upc = "remove" /\ unused # <<>>
  /\ \E ok \in BOOLEAN :
       IF ok
         THEN /\ ufiles' = ufiles \ {Head(unused)} /\ unused' = Tail(unused)
              /\ UNCHANGED <<upc, uresult>>
         ELSE /\ upc' = "done" /\ uresult' = Returned("IoError", <<>>)
              /\ UNCHANGED <<ufiles, unused>>
  /\ UNCHANGED <<uorig, unotes, ufault, umix, unext>>
  /\ UNCHANGED <<firstVars, notUnusedVars>>

\* line 375
UnusedReturn ==
  /\ upc = "remove" /\ unused = <<>>
  /\ upc' = "done" /\ uresult' = Returned("Ok", <<>>)
  /\ UNCHANGED <<ufiles, uorig, unotes, ufault, umix, unused, unext>>
  /\ UNCHANGED <<firstVars, notUnusedVars>>

NextUnused ==
  \/ UnusedStart
  \/ UnusedFilter
  \/ UnusedNote
  \/ UnusedSort
  \/ UnusedRemove
  \/ UnusedReturn

SpecUnused == InitUnused /\ [][NextUnused]_vars

----------------------------------------------------------------------------
(* repair_twir_issues and repair_apod_issues: the notes named "TWiR n" and *)
(* "APoD y-m-d" are written anew under the names of issues and removed;    *)
(* repair_apod_issues then rewrites the daily note of the date.            *)

\* the texts the closures replace
TYPE_NEWS == <<"t", "y", "p", "e", ":", SP, "n", "e", "w", "s">>
TYPE_ISSUE == <<"t", "y", "p", "e", ":", SP, "i", "s", "s", "u", "e">>
NEWS_TWIR == <<"n", "e", "w", "s", "/", "t", "w", "i", "r">>
ISSUE_TWIR == <<"i", "s", "s", "u", "e", "/", "t", "w", "i", "r">>
NEWS_APOD == <<"n", "e", "w", "s", "/", "a", "p", "o", "d">>
ISSUE_APOD == <<"i", "s", "s", "u", "e", "/", "a", "p", "o", "d">>
SCIENCE_ASTRONOMY == <<"s", "c", "i", "e", "n", "c", "e", "/", "a", "s", "t", "r", "o", "n", "o", "m", "y">>
ASTRONOMY == <<"a", "s", "t", "r", "o", "n", "o", "m", "y">>
TWIR == <<"T", "W", "i", "R">>
APOD == <<"A", "P", "o", "D">>
ISS_TWIR == <<"I", "S", "S", ".", "T", "W", "i", "R", ".">>
ISS_APOD == <<"I", "S", "S", ".", "A", "P", "o", "D", ".">>
MD == <<"m", "d">>

\* the text of i32::MAX
I32_MAX_TEXT == <<"2", "1", "4", "7", "4", "8", "3", "6", "4", "7">>

\* str::parse::<i32> on digits the regex captured: None for the error
ParseI32(t) ==
  LET d == IF \A i \in 1..Len(t) : t[i] = "0" THEN <<>>
           ELSE SubSeq(t, MinOf({i \in 1..Len(t) : t[i] # "0"}), Len(t))
  IN IF \/ Len(d) > Len(I32_MAX_TEXT)
        \/ Len(d) = Len(I32_MAX_TEXT) /\ DigitsGreater(d, I32_MAX_TEXT)
       THEN None
       ELSE Some(ValueOf(d))

\* line 489 on a stem: ^TWiR\s+(?P<number>\d+)$, the digits captured
TwirNumber(stem) ==
  IF ~StartsWith(stem, TWIR) THEN None
  ELSE LET d == RunEnd(stem, Len(TWIR) + 1, Whitespace)
       IN IF d > Len(TWIR) + 1 /\ d <= Len(stem) /\ RunEnd(stem, d, Digits) = Len(stem) + 1
            THEN Some(SubSeq(stem, d, Len(stem)))
            ELSE None

\* line 571 on a stem: ^APoD\s+(?P<year>\d{1,4})-(?P<month>\d{1,2})-(?P<day>\d{1,2})$
ApodDate(stem) ==
  IF ~StartsWith(stem, APOD) THEN None
  ELSE LET y == RunEnd(stem, Len(APOD) + 1, Whitespace)
           m == RunEnd(stem, y, Digits)
           d == RunEnd(stem, m + 1, Digits)
           e == RunEnd(stem, d + 1, Digits)
       IN IF /\ y > Len(APOD) + 1
             /\ m - y \in 1..4 /\ m <= Len(stem) /\ stem[m] = "-"
             /\ d - (m + 1) \in 1..2 /\ d <= Len(stem) /\ stem[d] = "-"
             /\ e - (d + 1) \in 1..2 /\ e = Len(stem) + 1
            THEN Some([year |-> SubSeq(stem, y, m - 1), month |-> SubSeq(stem, m + 1, d - 1),
                       day |-> SubSeq(stem, d + 1, Len(stem))])
            ELSE None

\* the first filter of both streams on a name of the directory
IsMd(name) == Extension(name) = Some(MD)

\* lines 504-517: the second filter of repair_twir_issues
TwirSelected(name) ==
  /\ IsMd(name)
  /\ TwirNumber(FileStem(name)) # None
  /\ ParseI32(TwirNumber(FileStem(name))[1]) # None

\* lines 587-607: the second filter of repair_apod_issues
ApodSelected(name) == IsMd(name) /\ ApodDate(FileStem(name)) # None

\* line 509: the name of the file the note is written to
TwirNewName(name) == ISS_TWIR \o TwirNumber(FileStem(name))[1] \o <<"-", ".">> \o MD

\* lines 598-599: the name of the file the note is written to, and of the daily note
ApodNewName(name) ==
  LET c == ApodDate(FileStem(name))[1]
  IN ISS_APOD \o c.year \o <<".">> \o c.month \o <<".">> \o c.day \o <<".">> \o MD
ApodDailyName(name) ==
  LET c == ApodDate(FileStem(name))[1]
  IN c.year \o <<"-">> \o c.month \o <<"-">> \o c.day \o <<".">> \o MD

\* lines 527-542: the text of the issue
TwirText(content, number) ==
  LET c == Replace(Replace(Replace(content, TYPE_NEWS, TYPE_ISSUE), NEWS_TWIR, ISSUE_TWIR),
                   TWIR \o <<SP>> \o DecimalText(number + 1),
                   ISS_TWIR \o DecimalText(number + 1) \o <<"-">>)
  IN IF number > 1
       THEN Replace(c, TWIR \o <<SP>> \o DecimalText(number - 1),
                    ISS_TWIR \o DecimalText(number - 1))
       ELSE c

\* lines 616-619
ApodText(content) ==
  Replace(Replace(Replace(content, TYPE_NEWS, TYPE_ISSUE), NEWS_APOD, ISSUE_APOD),
          SCIENCE_ASTRONOMY, ASTRONOMY)

\* a file of a directory: written, removed
Put(dir, name, content) ==
  [x \in DOMAIN dir \cup {name} |-> IF x = name THEN content ELSE dir[x]]
Del(dir, name) == [x \in DOMAIN dir \ {name} |-> dir[x]]

\* the names and the texts of the model
N_TWIR_5 == <<"T", "W", "i", "R", SP, "5", ".", "m", "d">>
N_TWIR_6 == <<"T", "W", "i", "R", SP, SP, "6", ".", "m", "d">>
N_TWIR_TXT == <<"T", "W", "i", "R", SP, "5", ".", "t", "x", "t">>
N_ISS_5 == <<"I", "S", "S", ".", "T", "W", "i", "R", ".", "5", "-", ".", "m", "d">>
N_APOD == <<"A", "P", "o", "D", SP, "2", "0", "2", "4", "-", "1", "-", "2", ".", "m", "d">>
N_ISS_APOD == <<"I", "S", "S", ".", "A", "P", "o", "D", ".", "2", "0", "2", "4", ".", "1", ".", "2", ".", "m", "d">>
N_OTHER == <<"n", ".", "m", "d">>
N_DAILY == <<"2", "0", "2", "4", "-", "1", "-", "2", ".", "m", "d">>
X_TWIR == <<"t", "y", "p", "e", ":", SP, "n", "e", "w", "s", NL, "T", "W", "i", "R", SP, "6", SP, "T", "W", "i", "R", SP, "4", NL>>
X_APOD == <<"t", "y", "p", "e", ":", SP, "n", "e", "w", "s", NL, "n", "e", "w", "s", "/", "a", "p", "o", "d", NL>>
X_ISSUE == <<"t", "y", "p", "e", ":", SP, "i", "s", "s", "u", "e", NL>>
X_DAILY == <<"[", "[", "A", "P", "o", "D", SP, "2", "0", "2", "4", "-", "1", "-", "2", "]", "]", NL>>

\* the files the directory of an operation can hold
IssueFiles(o) ==
  IF o = "twir" THEN {N_TWIR_5, N_TWIR_6, N_TWIR_TXT, N_ISS_5}
  ELSE {N_APOD, N_ISS_APOD, N_OTHER}
IssueContent(name) ==
  IF name \in {N_ISS_5, N_ISS_APOD} THEN X_ISSUE
  ELSE IF name = N_APOD THEN X_APOD ELSE X_TWIR

\* the number of files in the directory
MaxIssueFiles == 2

\* a call on a file, as the log keeps it: the calls that were made with their names,
\* "create failed" and "write failed" for a File::create and a write_all that failed
Call(kind, dir, name) == [kind |-> kind, dir |-> dir, name |-> name]

InitIssues ==
  /\ root \in {"unset", "dir"}
  /\ issueOp \in {"twir", "apod"}
  /\ \E names \in SUBSET IssueFiles(issueOp) :
       /\ Cardinality(names) \in 1..MaxIssueFiles
       /\ issueDir = [x \in names |-> IssueContent(x)]
       /\ listing \in Orders(names)
  /\ issueOrig = issueDir
  /\ daily \in {<<>>} \cup (IF issueOp = "apod" THEN {[x \in {N_DAILY} |-> X_DAILY]} ELSE {})
  /\ dailyOrig = daily
  /\ issuePc = "idle" /\ issueNext = 0 /\ issueLog = <<>> /\ issueErrors = <<>>
  /\ issueResult = NotReturned
  /\ FirstIdle /\ UnusedIdle /\ RunIdle /\ CalIdle

\* lines 486-487, 567-568: check_root and the path of the directory
IssueStart ==
  /\ issuePc = "idle"
  /\ LET c == CheckRoot(root)
     IN IF c.tag # "Ok"
          THEN issuePc' = "done" /\ issueResult' = c /\ issueNext' = issueNext
          ELSE \E path \in {"None", "Some"} :
                 IF path = "None"
                   THEN /\ issuePc' = "done"
                        /\ issueResult' = Returned("VaultRootIsAbsent", <<>>)
                        /\ issueNext' = issueNext
                   ELSE issuePc' = "walk" /\ issueNext' = 1 /\ issueResult' = issueResult
  /\ UNCHANGED <<issueOp, issueDir, issueOrig, daily, dailyOrig, listing, issueLog, issueErrors>>
  /\ UNCHANGED <<firstVars, notIssueVars>>

\* the name the stream has come to, and whether the filters keep it
IssueAt == listing[issueNext]
IssueKept ==
  /\ IssueAt \in DOMAIN issueDir
  /\ IF issueOp = "twir" THEN TwirSelected(IssueAt) ELSE ApodSelected(IssueAt)

\* the filters drop a name
IssueFilter ==
  /\ issuePc = "walk" /\ issueNext <= Len(listing) /\ ~IssueKept
  /\ issueNext' = issueNext + 1
  /\ UNCHANGED <<issueOp, issueDir, issueOrig, daily, dailyOrig, listing, issuePc, issueLog,
               issueErrors, issueResult>>
  /\ UNCHANGED <<firstVars, notIssueVars>>

\* lines 521-547 and 610-624: the note is read, its text is written to the file of the
\* issue, the note is removed; f is the call that fails.  The result: the directory,
\* the calls made, and whether the closure goes on
ReplaceNote(dir, name, new_name, content, f) ==
  LET opn == <<Call("open", "issues", name)>>
      crt == opn \o <<Call("create", "issues", new_name)>>
      wrt == crt \o <<Call("write", "issues", new_name)>>
      rmv == wrt \o <<Call("remove", "issues", name)>>
  IN CASE f = "open" -> {[dir |-> dir, log |-> opn, ok |-> FALSE]}
       [] f = "read" -> {[dir |-> dir, log |-> opn, ok |-> FALSE]}
       [] f = "create" ->
            {[dir |-> dir, log |-> opn \o <<Call("create failed", "issues", new_name)>>,
              ok |-> FALSE]}
       [] f = "write" ->
            {[dir |-> Put(dir, new_name, part),
              log |-> crt \o <<Call("write failed", "issues", new_name)>>, ok |-> FALSE] :
               part \in PartialWrites(content)}
       [] f = "remove" -> {[dir |-> Put(dir, new_name, content), log |-> rmv, ok |-> FALSE]}
       [] OTHER -> {[dir |-> Del(Put(dir, new_name, content), name), log |-> rmv, ok |-> TRUE]}

\* lines 626-646: the daily note of the date, if there is one, is read, removed and
\* written anew with the name of the issue in the place of the name of the note
RewriteDaily(dir, name, old_stem, new_stem, f) ==
  IF name \notin DOMAIN dir THEN {[dir |-> dir, log |-> <<>>, ok |-> TRUE]}
  ELSE LET content == Replace(dir[name], old_stem, new_stem)
           opn == <<Call("open", "daily", name)>>
           rmv == opn \o <<Call("remove", "daily", name)>>
           crt == rmv \o <<Call("create", "daily", name)>>
           wrt == crt \o <<Call("write", "daily", name)>>
       IN CASE f = "daily open" -> {[dir |-> dir, log |-> opn, ok |-> FALSE]}
            [] f = "daily read" -> {[dir |-> dir, log |-> opn, ok |-> FALSE]}
            [] f = "daily remove" -> {[dir |-> dir, log |-> rmv, ok |-> FALSE]}
            [] f = "daily create" ->
                 {[dir |-> Del(dir, name),
                   log |-> rmv \o <<Call("create failed", "daily", name)>>, ok |-> FALSE]}
            [] f = "daily write" ->
                 {[dir |-> Put(dir, name, part),
                   log |-> crt \o <<Call("write failed", "daily", name)>>, ok |-> FALSE] :
                    part \in PartialWrites(content)}
            [] OTHER -> {[dir |-> Put(dir, name, content), log |-> wrt, ok |-> TRUE]}

IssueFaults == {"none", "open", "read", "create", "write", "remove"}
DailyFaults == {"daily open", "daily read", "daily remove", "daily create", "daily write"}

\* the closure of repair_twir_issues on a note
TwirIssue ==
  /\ issueOp = "twir" /\ issuePc = "walk" /\ issueNext <= Len(listing) /\ IssueKept
  /\ LET number == ParseI32(TwirNumber(FileStem(IssueAt))[1])[1]
     IN \E f \in IssueFaults :
          \E r \in ReplaceNote(issueDir, IssueAt, TwirNewName(IssueAt),
                            TwirText(issueDir[IssueAt], number), f) :
            /\ issueDir' = r.dir
            /\ issueLog' = issueLog \o r.log
            /\ issueErrors' = IF r.ok THEN issueErrors
                              ELSE Append(issueErrors, [entry |-> IssueAt, error |-> "IoError"])
  /\ issueNext' = issueNext + 1
  /\ UNCHANGED <<issueOp, issueOrig, daily, dailyOrig, listing, issuePc, issueResult>>
  /\ UNCHANGED <<firstVars, notIssueVars>>

\* the closure of repair_apod_issues on a note
ApodIssue ==
  /\ issueOp = "apod" /\ issuePc = "walk" /\ issueNext <= Len(listing) /\ IssueKept
  /\ \E f \in IssueFaults \cup DailyFaults :
       \E r \in ReplaceNote(issueDir, IssueAt, ApodNewName(IssueAt),
                         ApodText(issueDir[IssueAt]), f) :
         /\ issueDir' = r.dir
         /\ IF r.ok
              THEN \E d \in RewriteDaily(daily, ApodDailyName(IssueAt), FileStem(IssueAt),
                                         FileStem(ApodNewName(IssueAt)), f) :
                     /\ daily' = d.dir
                     /\ issueLog' = issueLog \o r.log \o d.log
                     /\ issueErrors' =
                          IF d.ok THEN issueErrors
                          ELSE Append(issueErrors, [entry |-> IssueAt, error |-> "IoError"])
              ELSE /\ daily' = daily
                   /\ issueLog' = issueLog \o r.log
                   /\ issueErrors' = Append(issueErrors, [entry |-> IssueAt, error |-> "IoError"])
  /\ issueNext' = issueNext + 1
  /\ UNCHANGED <<issueOp, issueOrig, dailyOrig, listing, issuePc, issueResult>>
  /\ UNCHANGED <<firstVars, notIssueVars>>

\* lines 556-560, 655-659
IssueReturn ==
  /\ issuePc = "walk" /\ issueNext > Len(listing)
  /\ issueResult' = Aggregate(issueErrors)
  /\ issuePc' = "done"
  /\ UNCHANGED <<issueOp, issueDir, issueOrig, daily, dailyOrig, listing, issueNext, issueLog,
               issueErrors>>
  /\ UNCHANGED <<firstVars, notIssueVars>>

NextIssues ==
  \/ IssueStart
  \/ IssueFilter
  \/ TwirIssue
  \/ ApodIssue
  \/ IssueReturn

SpecIssues == InitIssues /\ [][NextIssues]_vars

----------------------------------------------------------------------------
(* Application::run on the repair command: the operations of the flags     *)
(* that are set, one after another.                                        *)

\* lines 120-146: the operations in the order run calls them, by their flags
RepairOrder ==
  <<"wiki_refs", "remove_unused_files", "rename_files", "twir_issues", "apod_issues",
    "remove_created", "banners">>

\* a run that goes on after an operation has returned an error.  C28 has to tell it
\* from run.
TryNever(r) == FALSE

\* the operator ? on the result of an operation: its error is returned from run
Try(r) == r # "Ok"

InitRun ==
  /\ root \in {"unset", "dir"}
  /\ flags \in SUBSET {RepairOrder[k] : k \in 1..Len(RepairOrder)}
  /\ runPc = "idle" /\ runAt = 0 /\ runLog = <<>> /\ runResult = NotReturned
  /\ FirstIdle /\ UnusedIdle /\ IssueIdle /\ CalIdle

\* line 109: the match on the repair command
RunStart ==
  /\ runPc = "idle"
  /\ runPc' = "run" /\ runAt' = 1
  /\ UNCHANGED <<flags, runLog, runResult>>
  /\ UNCHANGED <<firstVars, notRunVars>>

\* an if whose flag is not set
RunSkip ==
  /\ runPc = "run" /\ runAt <= Len(RepairOrder) /\ RepairOrder[runAt] \notin flags
  /\ runAt' = runAt + 1
  /\ UNCHANGED <<flags, runPc, runLog, runResult>>
  /\ UNCHANGED <<firstVars, notRunVars>>

\* an if whose flag is set: the operation is awaited; it returns Ok or an error (with
\* the root unset, check_root's)
RunOperation ==
  /\ runPc = "run" /\ runAt <= Len(RepairOrder) /\ RepairOrder[runAt] \in flags
  /\ \E r \in (IF CheckRoot(root).tag = "Ok" THEN {"Ok", "MultipleExecutorsError", "IoError"}
               ELSE {CheckRoot(root).tag}) :
       /\ runLog' = Append(runLog, [name |-> RepairOrder[runAt], result |-> r])
       /\ IF Try(r)
            THEN /\ runPc' = "done" /\ runResult' = Returned(r, <<>>)
                 /\ runAt' = runAt
            ELSE /\ runAt' = runAt + 1
                 /\ UNCHANGED <<runPc, runResult>>
  /\ UNCHANGED flags
  /\ UNCHANGED <<firstVars, notRunVars>>

\* line 221
RunReturn ==
  /\ runPc = "run" /\ runAt > Len(RepairOrder)
  /\ runPc' = "done" /\ runResult' = Returned("Ok", <<>>)
  /\ UNCHANGED <<flags, runAt, runLog>>
  /\ UNCHANGED <<firstVars, notRunVars>>

NextRun ==
  \/ RunStart
  \/ RunSkip
  \/ RunOperation
  \/ RunReturn

SpecRun == InitRun /\ [][NextRun]_vars

----------------------------------------------------------------------------
(* add_calendar: the table of a month, a row a week, appended to the       *)
(* monthly note.  The dates are chrono's: the proleptic Gregorian          *)
(* calendar.  A row of the model is the sequence of the cells pushed after *)
(* the leading "|": 0 for the blank cell "    |", d for the cell of day d. *)

\* the years and the months add_calendar is called with
Years == {0, 2021, 2023, 2024}
Months == 0..13

IsLeap(y) == (y % 4 = 0 /\ y % 100 # 0) \/ y % 400 = 0

\* the number of days of a month
DaysIn(y, m) ==
  IF m = 2 THEN (IF IsLeap(y) THEN 29 ELSE 28)
  ELSE IF m \in {4, 6, 9, 11} THEN 30 ELSE 31

\* the days of the year before the first day of the month
RECURSIVE DaysBeforeMonth(_, _)
DaysBeforeMonth(y, m) ==
  IF m = 1 THEN 0 ELSE DaysBeforeMonth(y, m - 1) + DaysIn(y, m - 1)

\* NaiveDate::weekday().num_days_from_monday(): the first of January of the year 1
\* is a Monday
Weekday(y, m, d) ==
  (365 * (y - 1) + ((y - 1) \div 4) - ((y - 1) \div 100) + ((y - 1) \div 400)
     + DaysBeforeMonth(y, m) + (d - 1)) % 7

\* "    |".repeat(k)
Blanks(k) == [i \in 1..k |-> 0]

InitCal ==
  /\ root \in {"unset", "dir"}
  /\ cyear \in Years /\ cmonth \in Months
  /\ current = 0 /\ cn = 0 /\ crow = <<>> /\ calendar = <<>>
  /\ calPc = "idle" /\ calResult = NotReturned
  /\ FirstIdle /\ UnusedIdle /\ IssueIdle /\ RunIdle

\* lines 1191-1216: check_root, the test of the date, the monthly note, the first row
CalStart ==
  /\ calPc = "idle"
  /\ LET c == CheckRoot(root)
     IN IF c.tag # "Ok"
          THEN /\ calPc' = "done" /\ calResult' = c
               /\ UNCHANGED <<current, cn, crow>>
          ELSE IF cyear <= 0 \/ cmonth \notin 1..12
          THEN /\ calPc' = "done" /\ calResult' = Returned("IllegalDate", <<>>)
               /\ UNCHANGED <<current, cn, crow>>
          ELSE \E monthly \in {"no daily path", "no file", "file"} :
                 IF monthly # "file"
                   THEN /\ calPc' = "done"
                        /\ calResult' = Returned(IF monthly = "no file" THEN "IllegalPath"
                                                 ELSE "VaultRootIsAbsent", <<>>)
                        /\ UNCHANGED <<current, cn, crow>>
                   ELSE /\ calPc' = "loop" /\ calResult' = calResult
                        /\ current' = 1
                        /\ cn' = Weekday(cyear, cmonth, 1)
                        /\ crow' = Blanks(Weekday(cyear, cmonth, 1))
  /\ UNCHANGED <<cyear, cmonth, calendar>>
  /\ UNCHANGED <<firstVars, notCalVars>>

\* lines 1218-1237: one turn of the loop
CalDay ==
  /\ calPc = "loop"
  /\ LET full == cn + 1 > 6
         row == IF full THEN <<>> ELSE Append(crow, current)
         rows == IF full THEN Append(calendar, Append(crow, current)) ELSE calendar
     IN IF current = DaysIn(cyear, cmonth)
          THEN /\ calendar' =
                    Append(rows, row \o Blanks(6 - Weekday(cyear, cmonth, current)))
               /\ crow' = row
               /\ cn' = Weekday(cyear, cmonth, current)
               /\ current' = current
               /\ calPc' = "built"
          ELSE /\ calendar' = rows
               /\ crow' = row
               /\ cn' = IF full THEN 0 ELSE cn + 1
               /\ current' = current + 1
               /\ calPc' = calPc
  /\ UNCHANGED <<cyear, cmonth, calResult>>
  /\ UNCHANGED <<firstVars, notCalVars>>

\* lines 1239-1257: the note is read, the table is appended, the note is written
CalWrite ==
  /\ calPc = "built"
  /\ \E f \in {"none", "open", "read", "create", "write"} :
       calResult' = Returned(IF f = "none" THEN "Ok" ELSE "IoError", <<>>)
  /\ calPc' = "done"
  /\ UNCHANGED <<cyear, cmonth, current, cn, crow, calendar>>
  /\ UNCHANGED <<firstVars, notCalVars>>

NextCal ==
  \/ CalStart
  \/ CalDay
  \/ CalWrite

SpecCal == InitCal /\ [][NextCal]_vars

----------------------------------------------------------------------------
(* Claims about the metadata functions, under SpecMeta.                    *)

C5_BodyPreserved ==
  (mstage \in {"embedded", "reparsed"} /\ HasFrontMatter(tgt)) =>
     /\ HasFrontMatter(out)
     /\ LinesBefore(out) = LinesBefore(tgt)
     /\ LinesAfter(out) = LinesAfter(tgt)

\* C11: embed into a note without front matter.  When metadata has been embedded
\* into a text without a delimiter line, the result holds exactly two delimiter
\* lines, its first line is the opening one, the lines after the closing one are the
\* lines of the text, and from_str on the result yields the embedded metadata.
C11_EmbedWithoutFrontMatter ==
  (mstage \in {"embedded", "reparsed"} /\ DelimiterCount(tgt) = 0) =>
     /\ DelimiterCount(out) = 2
     /\ IsDelimiter(Lines(out)[1])
     /\ LinesAfter(out) = Lines(tgt)
     /\ mstage = "reparsed" => back = Ok(meta.v)

\* the lines of a text that consist of exactly three hyphens
ExactDelimiterCount(s) == Cardinality({i \in 1..Len(Lines(s)) : Lines(s)[i] = DELIM})

\* C12: delimiter recognition.  from_str finds a block only in a text with two lines
\* that consist of exactly three hyphens, and embed leaves every line of a text
\* without such a line in its result: a line that only starts with three hyphens
\* neither opens nor closes a block.
C12_DelimiterExact ==
  /\ mstage \in {"parsed", "embedded", "reparsed"} => ExactDelimiterCount(src) >= 2
  /\ (mstage \in {"embedded", "reparsed"} /\ ExactDelimiterCount(tgt) = 0) =>
       \A i \in 1..Len(Lines(tgt)) : \E j \in 1..Len(Lines(out)) : Lines(out)[j] = Lines(tgt)[i]

\* the text ![[name]] of a wiki embed
WikiEmbed(name) == <<"!", "[", "[">> \o name \o <<"]", "]">>

\* the banner of the block of the note is written as the wiki embed of the name
BannerWrittenAs(s, name) ==
  \E i \in 1..Len(Lines(s)) :
    Lines(s)[i] = KEY_BANNER \o <<":", SP, QUOTE>> \o WikiEmbed(name) \o <<QUOTE>>

\* C19: banner accessor.  get_banner on metadata parsed from a note whose banner is
\* written as the wiki embed ![[name]] returns name, and get_banner after
\* set_banner(x) returns x.
C19_BannerAccessor ==
  [][/\ (MetaParse /\ meta'.tag = "Ok" /\ BannerWrittenAs(src, NAME_A))
          => GetBanner(meta'.v) = Some(NAME_A)
     /\ \A x \in BannerNames : MetaSetBanner(x) => GetBanner(meta'.v) = Some(x)]_vars

----------------------------------------------------------------------------
(* Claims about repeated runs, under SpecIdem.                             *)

\* a run after the first one neither writes the file nor leaves another text
Unchanging(i) == ~itrail[i].wrote /\ itrail[i].content = itrail[i - 1].content

\* C8: idempotence of the metadata repairs.  A run of repair_banners or of
\* remove_created on the output of a run of the same operation does not write the
\* file: its text stays byte for byte what the first run left.
C8_RepairIdempotent ==
  iop.name \in {"repair_banners", "remove_created"} =>
    \A i \in 2..Len(itrail) : Unchanging(i)

\* repair_banners ran twice on a note whose banner it rewrote in the first run
C8_Witness ==
  /\ iop.name = "repair_banners"
  /\ Len(itrail) = 2 /\ itrail[1].wrote
  /\ HasFrontMatter(ifile) /\ FromStr(ifile).tag = "Ok"
  /\ StartsWith(GetBanner(FromStr(ifile).v)[1], BANNERS_PREFIX)

\* C9: idempotence of remove_line.  A run of remove_line(L) on the output of a run
\* of remove_line(L) leaves the text of the file as it is, also when several lines of
\* the note match L.
C9_RemoveLineIdempotent ==
  iop.name = "remove_line" =>
    \A i \in 2..Len(itrail) : itrail[i].content = itrail[i - 1].content

----------------------------------------------------------------------------
(* Claims about the bulk operations, under Spec.                           *)

\* what the closure of operation o does with a text
Closure(o, buffer) ==
  CASE o.name = "repair_wiki_refs" -> WikiRefsFile(buffer)
    [] o.name = "remove_created" -> RemoveCreatedFile(buffer)
    [] o.name = "repair_banners" -> RepairBannersFile(buffer)
    [] o.name = "add_created" -> AddCreatedFile(buffer, o.a, o.b)
    [] o.name = "rename_banner" -> RenameBannerFile(buffer, o.a, o.b)
    [] o.name = "remove_line" -> RemoveLineFile(buffer, Trim(o.a))
    [] o.name = "add_banner" -> AddBannerFile(buffer, o.a, o.b[1], o.b[2])

\* the text the operation is to leave in entry i
ExpectedText(i) ==
  LET r == Closure(op, orig[i].content)
  IN IF r.kind = "Write" THEN r.content ELSE orig[i].content

\* the entries the operation selects, and those an I/O call failed on
SelectedEntries == {i \in DOMAIN orig : Selected(orig[i])}
Failed == {i \in SelectedEntries : fault[i] \notin {"pending", "none"}}

\* the operation passed check_root and returned
Completed == pc = "done" /\ root = "dir"

C6_MalformedMetadata ==
  /\ \A i \in SelectedEntries :
       DelimiterCount(orig[i].content) = 1 =>
         /\ FromStr(orig[i].content) = Err("IllegalNoteMetadata")
         /\ op.name \in MetadataOps =>
              /\ vault[i] = orig[i] /\ i \notin created
              /\ parse[i] # "pending" => parse[i] = "IllegalNoteMetadata" /\ next > i
  /\ Completed => \A i \in SelectedEntries : fault[i] # "pending"

\* repair_banners met a note with an opening delimiter only, then rewrote the next one
C6_Witness ==
  /\ Completed /\ op.name = "repair_banners"
  /\ Selected(orig[1]) /\ DelimiterCount(orig[1].content) = 1
  /\ parse[1] = "IllegalNoteMetadata"
  /\ 2 \in created /\ vault[2].content # orig[2].content

\* C7: BatchOutcome.  A bulk operation that has run its stream returns Ok exactly
\* when no closure failed; otherwise it returns MultipleExecutorsError, whose list is
\* not empty and holds one error for each entry the closure failed on.
C7_BatchOutcome ==
  Completed =>
    /\ result.tag \in {"Ok", "MultipleExecutorsError"}
    /\ result.tag = "Ok" <=> Failed = {}
    /\ result.tag = "MultipleExecutorsError" =>
         /\ result.errors # <<>>
         /\ Len(result.errors) = Cardinality(Failed)
         /\ {result.errors[k].entry : k \in 1..Len(result.errors)} = Failed

\* remove_line failed on both notes of the vault
C7_Witness ==
  /\ Completed /\ op.name = "remove_line"
  /\ result.tag = "MultipleExecutorsError" /\ Len(result.errors) = 2
  /\ fault[1] = "write" /\ fault[2] = "open"

\* C10: fail-fast precondition.  With the root unset, missing or no directory, a
\* started operation has returned VaultRootIsAbsent (root unset) or IllegalVaultRoot,
\* no MultipleExecutorsError, and has opened, created and changed no file.
C10_FailFast ==
  (root # "dir" /\ pc # "idle") =>
    /\ pc = "done"
    /\ result = Returned(IF root = "unset" THEN "VaultRootIsAbsent" ELSE "IllegalVaultRoot", <<>>)
    /\ opened = {} /\ created = {} /\ errors = <<>> /\ vault = orig

\* an operation was started on a root that is a file, over a vault with a note
C10_Witness ==
  /\ root = "file" /\ pc = "done" /\ result.tag = "IllegalVaultRoot"
  /\ SelectedEntries # {}

----------------------------------------------------------------------------
(* Claims about rename_attached_files, under SpecRename.                   *)

\* the notes the operation selects
SelectedNotes == {i \in DOMAIN rorig : IsNote(rorig[i])}

\* C2: rename only after all note rewrites.  When a file is renamed, the closure of
\* the first stream has finished, with or without an error, on every selected note,
\* and no note is processed after a rename.
C2_RenameAfterRewrites ==
  \A j \in 1..Len(rlog) :
    rlog[j].kind = "rename" =>
      /\ \A i \in SelectedNotes : \E k \in 1..(j - 1) : rlog[k] = [kind |-> "note", id |-> i]
      /\ \A k \in j..Len(rlog) : rlog[k].kind = "rename"

\* two notes went through the first stream, the first one with an error, then a file
\* was renamed
C2_Witness ==
  /\ Len(rlog) >= 3
  /\ rlog[1] = [kind |-> "note", id |-> 1] /\ rlog[2] = [kind |-> "note", id |-> 2]
  /\ rlog[3].kind = "rename"
  /\ rerrors # <<>> /\ rerrors[1].entry = 1
  /\ Cardinality(DOMAIN attach \ aorig) = 1

\* the references of a text: its words
RECURSIVE TokensFrom(_, _, _)
TokensFrom(s, i, word) ==
  IF i > Len(s) THEN (IF word = <<>> THEN <<>> ELSE <<word>>)
  ELSE IF s[i] = SP
    THEN (IF word = <<>> THEN <<>> ELSE <<word>>) \o TokensFrom(s, i + 1, <<>>)
    ELSE TokensFrom(s, i + 1, Append(word, s[i]))

Tokens(s) == TokensFrom(s, 1, <<>>)

\* C3: rename referential integrity.  After rename_attached_files has returned Ok,
\* every reference of a note that named a file of the files directory names a file
\* that is there, and where the file had no uuid for a name, the reference now reads
\* another name, under which the content of that file is found, and the old name is
\* gone from the directory.
C3_ReferentialIntegrity ==
  (rpc = "done" /\ rresult.tag = "Ok" /\ root = "dir" /\ files # <<>>) =>
    \A i \in SelectedNotes :
      LET before == Tokens(rorig[i].content)
          after == Tokens(rnotes[i].content)
      IN /\ Len(after) = Len(before)
         /\ \A k \in 1..Len(before) :
              before[k] \in aorig =>
                /\ after[k] \in DOMAIN attach
                /\ ~IsUuid(FileStem(before[k])) =>
                     /\ after[k] # before[k]
                     /\ attach[after[k]] = before[k]
                     /\ before[k] \notin DOMAIN attach

\* the map of the operation has been built
MapBuilt == rpc \in {"notes", "renames"}

\* the records of the map for a file of the files directory
RecordsOf(name) == {s \in DOMAIN files : files[s].old_name = name}

\* C13: RenameMap completeness.  The map holds exactly one record for every file of
\* the files directory whose stem is no uuid, also when two files share a stem, and
\* no record for a file whose stem is a uuid.
C13_MapComplete ==
  MapBuilt =>
    \A name \in aorig :
      Cardinality(RecordsOf(name)) = (IF IsUuid(FileStem(name)) THEN 0 ELSE 1)

\* C14: collision freedom of new names.  In the map no new name is the name of a
\* file of the files directory, and no two records have the same new name.
C14_NoCollision ==
  MapBuilt =>
    /\ \A s \in DOMAIN files : files[s].new_name \notin aorig
    /\ \A s, t \in DOMAIN files : files[s].new_name = files[t].new_name => s = t

\* the closure of the first stream has run on the note
Processed(i) == \E k \in 1..Len(rlog) : rlog[k] = [kind |-> "note", id |-> i]

\* an old name was replaced in the text of the note
Replaced(i) == Rewrite(rorig[i].content, files, order).content # rorig[i].content

\* C15: change flag of the reference rewrite.  A note is written anew only if an old
\* name was replaced in its text, and a processed note in which one was replaced is
\* written anew unless an I/O call failed.
C15_ChangeFlag ==
  \A i \in SelectedNotes :
    /\ i \in rewritten => Replaced(i)
    /\ (Processed(i) /\ Replaced(i) /\ rerrors = <<>>) => i \in rewritten

----------------------------------------------------------------------------
(* Claims about the line terminators of a rewritten note, under SpecIdem.  *)

\* the lines of a text, each with the terminator it has in the text
RECURSIVE RawLinesFrom(_, _)
RawLinesFrom(s, i) ==
  IF i > Len(s) THEN <<>>
  ELSE LET nl == {j \in i..Len(s) : s[j] = NL}
       IN IF nl = {} THEN <<[line |-> SubSeq(s, i, Len(s)), eol |-> <<>>]>>
          ELSE LET j == MinOf(nl)
                   line == SubSeq(s, i, j - 1)
               IN <<IF EndsWith(line, <<CR>>)
                      THEN [line |-> SubSeq(line, 1, Len(line) - 1), eol |-> <<CR, NL>>]
                      ELSE [line |-> line, eol |-> <<NL>>]>>
                    \o RawLinesFrom(s, j + 1)

RawLines(s) == RawLinesFrom(s, 1)

\* the lines of a note an operation does not intend to change: all but the line
\* remove_line removes, all outside the front-matter block for the other operations
KeptLines(s, o) ==
  IF o.name = "remove_line"
    THEN {i \in 1..Len(Lines(s)) :
            i # FirstIndex(Lines(s), LAMBDA l : EndsWith(Trim(l), Trim(o.a)))}
    ELSE IF HasFrontMatter(s)
           THEN {i \in 1..Len(Lines(s)) : i < NthDelimiter(s, 1) \/ i > NthDelimiter(s, 2)}
           ELSE {}

\* every kept line of the note is in the rewritten note with the terminator it had
\* (the end of the last line is the end of the file), and the rewritten note ends
\* with a line terminator exactly when the note did
EndingsKept(before, after, o) ==
  /\ \A i \in KeptLines(before, o) :
       \E j \in 1..Len(RawLines(after)) :
          /\ RawLines(after)[j].line = RawLines(before)[i].line
          /\ j < Len(RawLines(after)) => RawLines(after)[j].eol = RawLines(before)[i].eol
  /\ EndsWith(after, <<NL>>) <=> EndsWith(before, <<NL>>)

\* C17: line-ending preservation.  Whenever remove_line or an operation that embeds
\* mutated metadata writes a note, every line it does not intend to change keeps its
\* exact line terminator, and the note ends with a line terminator after the write
\* exactly when it did before.
C17_LineEndings ==
  [][(Len(itrail') > Len(itrail) /\ itrail'[Len(itrail')].wrote
        /\ iop.name \in MetadataOps \cup {"remove_line"})
      => EndingsKept(ifile, ifile', iop)]_vars

----------------------------------------------------------------------------
(* Claims about the scheduling of the units, under SpecStream.             *)

\* every step a poll of the stream can take from s
Steps(s) ==
  FilterSteps(s) \cup PullSteps(s) \cup OpenSteps(s) \cup ReadSteps(s)
    \cup CreateSteps(s) \cup WriteSteps(s)

\* the states of the stream the polls can reach from those of S
RECURSIVE ReachableFrom(_)
ReachableFrom(S) ==
  LET T == S \cup UNION {Steps(s) : s \in S}
  IN IF T = S THEN S ELSE ReachableFrom(T)

\* the units that have started and not yet finished
InFlight(s) == {i \in 1..Len(walk) : s.pos[i] \in {"start", "opened", "read", "created"}}

\* the unit of one file starts while the unit of another has not finished
Overlap(s) == Cardinality(InFlight(s)) >= 2

\* C16: concurrent processing.  When the stream of a bulk operation that selects two
\* files or more is about to be polled, some execution from there reaches a state in
\* which two units are in flight together.
C16_ConcurrentUnits ==
  (spc = "polled" /\ stream = Unpolled /\ Cardinality({i \in 1..Len(walk) : walk[i]}) >= 2) =>
     \E s \in ReachableFrom({stream}) : Overlap(s)

----------------------------------------------------------------------------
(* Claims about the issues of This Week in Rust, under SpecTwir.           *)

\* the argument has been parsed
Parsed == tpc # "cli"

\* the text of a..b
RangeText(a, b) == DecimalText(a) \o DOTS \o DecimalText(b)

\* C18 as stated: issue argument parsing.  For the decimal text of every integer
\* n >= 1 from_str yields Single(n); for the text a..b of integers a, b >= 1 it
\* yields a Range of the two in ascending order; the texts 0 and -1 are rejected
\* with an error.
C18_IssueParsing ==
  Parsed =>
    /\ MatchesNumber(targ) =>
         /\ issues.tag = "Ok" /\ issues.v.tag = "Single"
         /\ DecimalText(issues.v.min) = targ
    /\ RangeCaptures(targ) # None /\ ~Contains(targ, <<SP>>) =>
         /\ issues.tag = "Ok" /\ issues.v.tag = "Range"
         /\ issues.v.min <= issues.v.max
         /\ {DecimalText(issues.v.min), DecimalText(issues.v.max)}
              = {RangeCaptures(targ)[1].min, RangeCaptures(targ)[1].max}
    /\ targ \in {<<"0">>, <<"-", "1">>} => issues = Err("IllegalIssue")

\* C18, amended: for every integer n with 1 <= n <= u32::MAX from_str of the decimal
\* text of n is Single(n); for a, b in that range from_str of a..b is
\* Range(min(a,b), max(a,b)), so the first bound of a Range never exceeds the
\* second; 0 and -1 are rejected with an error; on the decimal text of an integer
\* above u32::MAX from_str panics.
C18_IssuesParsed ==
  Parsed =>
    /\ \A n \in 1..MaxIssue : targ = DecimalText(n) => issues = Ok(Single(n))
    /\ \A a, b \in 1..MaxIssue :
         targ = RangeText(a, b) =>
           issues = Ok(Range(IF a < b THEN a ELSE b, IF a < b THEN b ELSE a))
    /\ (issues.tag = "Ok" /\ issues.v.tag = "Range") => issues.v.min <= issues.v.max
    /\ targ \in {<<"0">>, <<"-", "1">>} => issues = Err("IllegalIssue")
    /\ (MatchesNumber(targ) /\ Overflows(targ)) => issues = Panic

\* a range given with its greater bound first has been parsed
C18_Witness ==
  /\ Parsed /\ targ = RangeText(MaxIssue, 2)
  /\ issues = Ok(Range(2, MaxIssue))

\* the last token of a title: what follows its last space
TrailingToken(title) ==
  LET sp == {i \in 1..Len(title) : title[i] = SP}
  IN IF sp = {} THEN title
     ELSE SubSeq(title, (CHOOSE i \in sp : \A j \in sp : j <= i) + 1, Len(title))

\* the trailing number of the title is n
IsIssue(title, n) == ParseU32(TrailingToken(title)) = Some(n)

\* C20: issue lookup.  Notes::find(n) returns a note only if the trailing number of
\* its title is n, and returns the IllegalIssue error if no title of the collection
\* has the trailing number n.
C20_IssueLookup ==
  \A k \in 1..Len(found) :
    /\ found[k].note.tag = "Ok" => IsIssue(found[k].note.v, found[k].number)
    /\ (\A i \in 1..Len(notes) : ~IsIssue(notes[i], found[k].number))
         => found[k].note = Err("IllegalIssue")

----------------------------------------------------------------------------
(* Claims about add_banner, under Spec.                                    *)

\* the note of entry i was one add_banner is to give the banner: an md note whose
\* type is the given type and whose tags include every given tag
BannerDue(i) ==
  /\ Selected(orig[i])
  /\ FromStr(orig[i].content).tag = "Ok"
  /\ LET m == FromStr(orig[i].content).v
     IN /\ GetType(m) = Some(op.b[1])
        /\ op.b[2] # None =>
             /\ GetTags(m) # None
             /\ \A k \in 1..Len(op.b[2][1]) :
                  \E j \in 1..Len(GetTags(m)[1]) : GetTags(m)[1][j] = op.b[2][1][k]

\* C21: effect of add_banner.  When add_banner has returned Ok, every md note whose
\* type is the given type and whose tags include the given tags holds the banner
\* file_name in its front matter on disk, and every other entry is unchanged.
C21_AddBannerEffect ==
  (Completed /\ op.name = "add_banner" /\ result.tag = "Ok") =>
    \A i \in DOMAIN orig :
      IF BannerDue(i)
        THEN /\ FromStr(vault[i].content).tag = "Ok"
             /\ GetBanner(FromStr(vault[i].content).v) = Some(op.a)
        ELSE vault[i] = orig[i]

----------------------------------------------------------------------------
(* Claims about remove_unused_files, under SpecUnused.                     *)

\* the entries of the walk that are notes, and those a read call failed on
UnusedNotes == {i \in 1..Len(unotes) : IsNote(unotes[i])}
UnreadNotes == {i \in UnusedNotes : ufault[i] \in {"open", "read"}}

----------------------------------------------------------------------------
(* Further claims about the bulk operations, under Spec.                   *)

\* the selected entries that were removed between the filter and File::open
Vanished == {i \in SelectedEntries : fault[i] = "gone"}

\* C24: a vanished file is not an error.  When a file is removed after the filter of
\* the stream has selected it and before the closure opens it, the errors of the
\* operation hold no error for that file.
C24_VanishedFile ==
  \A i \in Vanished : \A k \in 1..Len(errors) : errors[k].entry # i

\* C25: parse totality.  from_str ends with a Metadata or with an error on every
\* note, a note whose two delimiter lines are adjacent included, so that no bulk
\* operation is aborted and a started operation on a vault returns after the stream has
\* run the closure on every selected entry.
C25_ParseTotality ==
  /\ \A i \in SelectedEntries : parse[i] # "Panic"
  /\ pc # "aborted"
  /\ Completed => \A i \in SelectedEntries : fault[i] # "pending"

----------------------------------------------------------------------------
(* Further claims about rename_attached_files, under SpecRename.           *)

\* the operation went through both streams and returned
BothPasses == rpc = "done" /\ rresult.tag \in {"Ok", "MultipleExecutorsError"}

\* how often the rename of record n was attempted
Attempts(n) ==
  Cardinality({j \in 1..Len(rlog) : rlog[j] = [kind |-> "rename", id |-> n]})

\* C26: the rename pass is unconditional and aggregating.  When
\* rename_attached_files has gone through its streams, the rename of every record
\* of the map was attempted exactly once, whatever failed before; the operation
\* returns Ok when nothing failed and else one MultipleExecutorsError with the
\* errors of both passes, those of the note rewrites before those of the renames.
C26_RenamePass ==
  /\ \A n \in DOMAIN files : Attempts(n) <= 1
  /\ BothPasses =>
       /\ \A n \in DOMAIN files : Attempts(n) = 1
       /\ rresult = Aggregate(rerrors)
       /\ \A a, b \in 1..Len(rresult.errors) :
            (rresult.errors[a].pass = "renames" /\ rresult.errors[b].pass = "notes") => b < a

\* a note rewrite failed, the first rename failed, the second rename was done
C26_Witness ==
  /\ BothPasses /\ Len(order) = 2
  /\ Len(rresult.errors) = 2
  /\ rresult.errors[1].pass = "notes" /\ rresult.errors[2].pass = "renames"
  /\ rresult.errors[2].entry = order[1]
  /\ files[order[2]].new_name \in DOMAIN attach

----------------------------------------------------------------------------
(* Claims about repair_twir_issues and repair_apod_issues, under           *)
(* SpecIssues.                                                             *)

\* the operation went through its stream and returned
IssuesRan == issuePc = "done" /\ issueResult.tag \in {"Ok", "MultipleExecutorsError"}

\* the selection predicate of the operation on a name
IssueSelected(name) ==
  IF issueOp = "twir" THEN TwirSelected(name) ELSE ApodSelected(name)

\* how often the closure was invoked on a file of the directory
Invocations(name) ==
  Cardinality({j \in 1..Len(issueLog) : issueLog[j] = Call("open", "issues", name)})

\* C23: selection and single invocation.  In a run of repair_twir_issues or
\* repair_apod_issues the closure is invoked at most once, and once the operation
\* has returned exactly once, on every file of the directory that satisfies the
\* selection predicate; a file that does not satisfy it is still there with its
\* text, and was not created anew, written or removed.
C23_SelectionSingleInvocation ==
  /\ \A name \in DOMAIN issueOrig :
       IssueSelected(name) =>
         /\ Invocations(name) <= 1
         /\ IssuesRan => Invocations(name) = 1
  /\ \A name \in DOMAIN issueOrig :
       ~IssueSelected(name) =>
         /\ Invocations(name) = 0
         /\ name \in DOMAIN issueDir /\ issueDir[name] = issueOrig[name]
         /\ \A j \in 1..Len(issueLog) :
              ~(issueLog[j].dir = "issues" /\ issueLog[j].name = name)

\* a remove_file in directory d comes after the File::create and the write_all of
\* the replacement of the file
RemovedOnceReplaced(d) ==
  \A j \in 1..Len(issueLog) :
    (issueLog[j].kind = "remove" /\ issueLog[j].dir = d) =>
      \E a, b \in 1..(j - 1) :
        /\ a < b
        /\ issueLog[a].kind = "create" /\ issueLog[a].dir = d
        /\ issueLog[b].kind = "write" /\ issueLog[b].dir = d
        /\ issueLog[b].name = issueLog[a].name
        /\ issueLog[a].name =
             (IF d = "daily" THEN issueLog[j].name
              ELSE IF issueOp = "twir" THEN TwirNewName(issueLog[j].name)
              ELSE ApodNewName(issueLog[j].name))

\* the note of the closure that made call j: the last note opened before it
NoteOf(j) ==
  LET k == CHOOSE k \in 1..j :
             /\ issueLog[k].kind = "open" /\ issueLog[k].dir = "issues"
             /\ \A m \in (k + 1)..j :
                  ~(issueLog[m].kind = "open" /\ issueLog[m].dir = "issues")
  IN issueLog[k].name

\* when the File::create or the write_all of a replacement has failed, the original
\* file is there with its text and the note of the closure has an error
OriginalKept ==
  \A j \in 1..Len(issueLog) :
    issueLog[j].kind \in {"create failed", "write failed"} =>
      /\ \E k \in 1..Len(issueErrors) : issueErrors[k].entry = NoteOf(j)
      /\ IF issueLog[j].dir = "issues"
           THEN /\ NoteOf(j) \in DOMAIN issueDir
                /\ issueDir[NoteOf(j)] = issueOrig[NoteOf(j)]
           ELSE /\ issueLog[j].name \in DOMAIN daily
                /\ daily[issueLog[j].name] = dailyOrig[issueLog[j].name]

\* C27: no loss of note content during issue repair.  A note that
\* repair_twir_issues or repair_apod_issues writes anew (the note of the issue, and
\* the daily note repair_apod_issues rewrites) is removed only after its replacement
\* has been created and written; when creating or writing the replacement has
\* failed, the original file is there with its text and the failure is reported.
C27_NoContentLoss ==
  /\ RemovedOnceReplaced("issues") /\ RemovedOnceReplaced("daily")
  /\ OriginalKept

----------------------------------------------------------------------------
(* Claims about the repair command, under SpecRun.                         *)

\* the place of an operation in the order of run
Place(name) == CHOOSE k \in 1..Len(RepairOrder) : RepairOrder[k] = name

\* the operations run has started
Started == {runLog[j].name : j \in 1..Len(runLog)}

\* C28: repair sequencing.  The operations of the flags that are set are started one
\* after another in the order wiki-refs, remove-unused-files, rename-files,
\* twir-issues, apod-issues, remove-created, banners, each at most once and none
\* whose flag is not set; when one has returned an error it is the last one started,
\* run has returned that error, and the operations before it are those of the set
\* flags that come before it, all of them finished with Ok.
C28_RepairSequencing ==
  /\ Started \subseteq flags
  /\ \A a, b \in 1..Len(runLog) : a < b => Place(runLog[a].name) < Place(runLog[b].name)
  /\ \A j \in 1..Len(runLog) :
       /\ {runLog[k].name : k \in 1..(j - 1)} =
            {name \in flags : Place(name) < Place(runLog[j].name)}
       /\ runLog[j].result # "Ok" =>
            /\ j = Len(runLog)
            /\ runPc = "done" /\ runResult = Returned(runLog[j].result, <<>>)
            /\ \A k \in 1..(j - 1) : runLog[k].result = "Ok"
  /\ (runPc = "done" /\ runResult.tag = "Ok") => Started = flags

\* of three operations the second one returned an error and the third was not started
C28_Witness ==
  /\ flags = {"wiki_refs", "twir_issues", "banners"}
  /\ runPc = "done" /\ runResult.tag = "MultipleExecutorsError"
  /\ Len(runLog) = 2
  /\ runLog[1] = [name |-> "wiki_refs", result |-> "Ok"]
  /\ runLog[2].name = "twir_issues"

----------------------------------------------------------------------------
(* Claims about add_calendar, under SpecCal.                               *)

\* the cells of the rows, one row after another
RECURSIVE Flatten(_)
Flatten(rows) == IF rows = <<>> THEN <<>> ELSE Head(rows) \o Flatten(Tail(rows))

\* the days in the cells, in the order of the cells
DaysOf(rows) == SelectSeq(Flatten(rows), LAMBDA c : c # 0)

\* C29: calendar shape.  When add_calendar has built the table of a month, every
\* row after the header rows has seven cells, the days of the month are in the table
\* once each and in increasing order, every day is in the column of its weekday
\* (Monday first), and no row is without a day.
C29_CalendarShape ==
  calPc \in {"built", "done"} /\ calResult.tag \in {"None", "Ok", "IoError"} /\ calendar # <<>> =>
    /\ \A r \in 1..Len(calendar) : Len(calendar[r]) = 7
    /\ DaysOf(calendar) = [d \in 1..DaysIn(cyear, cmonth) |-> d]
    /\ \A r \in 1..Len(calendar) : \A c \in 1..Len(calendar[r]) :
         calendar[r][c] # 0 => c - 1 = Weekday(cyear, cmonth, calendar[r][c])
    /\ \A r \in 1..Len(calendar) : \E c \in 1..Len(calendar[r]) : calendar[r][c] # 0

====
